---- MODULE Spec2Model ----
(***************************************************************************)
(* Verification model of the validator's peer-to-peer scoring and          *)
(* agreement subsystem:                                                    *)
(*   - GossipEngine (internal/p2p gossip engine): flood relay with the     *)
(*     knownMessages seen-set, message callbacks, exact-match quorum.      *)
(*   - ValidatorP2PIntegration: the fetch loop, the 5-second decision      *)
(*     loop over pendingRequests, and the farm_data / farm_score handlers. *)
(*                                                                         *)
(*   - the prototype Validator (test_farm_score.go), consensus.Engine and  *)
(*     FarmScoreCalculator.                                                *)
(*                                                                         *)
(* Several specifications share the module and its variables:              *)
(*   SpecQuorum    one engine, votes stored by processMessage, and calls   *)
(*                 of CheckConsensus in every map-iteration order;         *)
(*   SpecGossip    a ring of GossipEngine nodes relaying envelopes;        *)
(*   SpecValidator one validator node with its timers and inbound votes    *)
(*                 (SpecSubmitErr: the same with a failing submission;     *)
(*                 SpecDistinctVotes: every node votes a different score); *)
(*   SpecCluster   fully connected validator nodes and one fetch;          *)
(*   SpecDiscovery peer discovery and the eviction of stale peers;         *)
(*   SpecTolerance the prototype's 1% tolerance quorum;                    *)
(*   SpecCalculator the calls of CalculateFarmScore;                       *)
(*   SpecEngine    consensus.Engine;                                       *)
(*   SpecSameSecond validator nodes fetching in different seconds;         *)
(*   SpecRevote    an origin that votes twice for one request;             *)
(*   SpecInbound   the frames a listener may receive;                      *)
(*   SpecProtocol  the libp2p stream Protocol and the status broadcast;    *)
(*   SpecBlocks    the block loop and the advertised block number;         *)
(*   SpecSeen      the seen-set while new messages keep arriving;          *)
(*   SpecStop      Start, Stop and the tasks Start leaves running;         *)
(*   SpecLocks     the locks taken around the message callbacks;           *)
(*   SpecFlood     SpecGossip with fair scheduling of its tasks;           *)
(*   SpecProof     the proof Generator;                                    *)
(*   SpecStart     Start and Stop of the P2P validator;                    *)
(*   SpecHost      HandlePeerFound and the network notifications;          *)
(*   SpecConsole   the console UI and its update routine.                  *)
(*                                                                         *)
(* Scores are float64 values in the code.  Only equality of scores is      *)
(* used by the exact-match quorum, so a score is modelled by the integer   *)
(* number of millionths it stands for (scores are rounded to 6 decimals).  *)
(***************************************************************************)
EXTENDS Integers, Sequences, FiniteSets, Bags, TLC

VARIABLES
    \* ---- one GossipEngine's vote table (SpecQuorum, SpecValidator) ----
    scoreResults,     \* map requestID -> (map sender -> score)
    lastCheck,        \* the last return of CheckConsensus: [req, reached, score]
    \* ---- the prototype Validator of test_farm_score.go (SpecTolerance) ----
    farmScores,       \* FarmScores: map farmID -> the validator's own score
    peerScores,       \* PeerScores: map farmID -> (map peerID -> score)
    tolCheck,         \* the last call of the prototype's CheckConsensus
    \* ---- consensus.Engine (SpecEngine) ----
    consensusResults, \* map requestID -> (map participantID -> result)
    resultCounts,     \* map requestID -> (map result -> count)
    engineCheck,      \* the last call of Engine.CheckConsensus
    \* ---- FarmScoreCalculator invocations (SpecCalculator) ----
    calcLog,          \* set of <<node, returns, score>>: calls of CalculateFarmScore
    \* ---- the overlay (SpecGossip) ----
    peers,            \* peers[n]: the peer table of node n (ids)
    knownMessages,    \* knownMessages[n]: set of message ids
    net,              \* bag of connections dialled and not yet accepted
    tasks,            \* bag of running goroutines (handleConnection, Broadcast...)
    callbackLog,      \* bag of <<node, msgID>>: callback invocations
    sendLog,          \* bag of <<from, to, msgID>>: outbound sends
    apiLog,           \* bag of <<node, kind, msgID>>: completed API broadcasts
    apiCalls,         \* number of API broadcasts started
    \* ---- the validator integration (SpecValidator) ----
    pendingRequests,  \* map requestID -> age of the stored time.Time
    checker,          \* the decision loop's position within a pass
    farmTimer,        \* time units until the fetch loop's next tick
    fetch,            \* the fetch loop's position within its body
    usedIDs,          \* request ids the fetch loop has generated
    handlers,         \* bag of message callbacks that have not yet returned
    stay,             \* map requestID -> age of its current stay in the open set
    decided,          \* map requestID -> first score CheckConsensus decided
    retired,          \* request ids removed from pendingRequests at least once
    submitMayFail,    \* whether the contract call can return an error
    \* ---- a cluster of validator nodes (SpecCluster, SpecSameSecond) ----
    nodeScores,       \* nodeScores[n]: the scoreResults table of node n's engine
    nodePending,      \* nodePending[n]: the pendingRequests map of node n
    backlog,          \* backlog[n]: connections established with n's listener
                      \* and not yet accepted, oldest first
    sent,             \* set of <<from, to, type, requestID>>: messages sent
    handled,          \* set of <<node, requestID>>: farm_data callbacks returned
    now,              \* the clock reading time.Now().Unix() returns
    \* ---- peer discovery and cleanup (SpecDiscovery) ----
    lastSeen,         \* lastSeen[n][p]: age of the LastSeen time of peer p at n
    beaconTimer,      \* beaconTimer[n]: time units until n's discovery ticker fires
    down,             \* nodes whose engine has stopped
    evicted,          \* set of <<n, p>>: cleanupOldPeers of n has removed peer p
    added,            \* number of AddPeer calls made
    \* ---- inbound messages of any content (SpecInbound) ----
    panicked,         \* nodes whose process has ended in a panic
    mutexHeld,        \* nodes whose engine mutex is locked between steps
    \* ---- the stream Protocol of one host (SpecProtocol) ----
    streamMap,        \* Protocol.peers: map peerID -> stream (its ReadWriter)
    streams,          \* the streams opened: id -> [peer, by, state]
    inbox,            \* inbox[s]: frames written by the remote end, not yet read
    readers,          \* streams whose readMessages goroutine is running
    sendCalls,        \* bag of SendMessage calls in progress
    peerCache,        \* P2PValidator.peers: map peerID -> LastBlockSeen received
    consumed,         \* the kinds of frame readMessages has read
    written,          \* set of <<peer, caller>>: messages SendMessage has written
    bcast,            \* the Broadcast call in progress: the peers still to send to
    broadcasts,       \* number of Broadcast calls that have returned
    \* ---- the block loop and the P2P status (SpecBlocks) ----
    latestBlock,      \* the block number the chain client reports
    lastBlock,        \* Validator.lastBlock
    blockTarget,      \* latestBlock as read by the pass in progress, else 0
    processed,        \* block numbers processBlock has been called for
    blockLog,         \* the block numbers in the order processBlock was called
    poll,             \* the last poll: the latest block it read, lastBlock
                      \* before it, and whether its loop has ended
    verificationQueue, \* request ids appended by processBlock
    lastBlockSeen,    \* P2PValidator.lastBlockSeen
    statusBlocks,     \* block numbers carried by status messages broadcast
    \* ---- Start and Stop of the validator integration (SpecStop) ----
    alive,            \* the long-running tasks that have not exited
    engineRunning,    \* GossipEngine.running
    engineCtxDone,    \* the context derived in GossipEngine.Start is cancelled
    callerCtxDone,    \* the context passed to Start is cancelled
    stopped,          \* Stop has returned
    afterStop,        \* tasks that broadcast or submitted after Stop returned
    \* ---- the mutexes of one node and the goroutines using them (SpecLocks) ----
    engineMutex,      \* GossipEngine.mutex: [writer, readers, waiting] counts
    resultsMutex,     \* ValidatorP2PIntegration.resultsMutex: 1 when locked
    lockTasks,        \* bag of goroutines: [kind, pc, waiting]
    \* ---- the proof Generator (SpecProof) ----
    proofs,           \* Generator.proofs: map requestID -> proof
    lastGenerate,     \* the last GenerateProof call: its arguments and return
    lastVerify,       \* the last VerifyProof call: its arguments and return
    \* ---- P2PValidator.Start and Stop (SpecStart) ----
    valRunning,       \* Validator.running
    valCancel,        \* Validator.cancel: the context it cancels, 0 for nil
    ctxsDone,         \* the contexts that have been cancelled
    valTasks,         \* the goroutines alive: <<function, context>>
    p2pHost,          \* P2PValidator.p2pHost: "nil", "open" or "closed"
    lastCall,         \* the last call of Start or Stop and what it returned
    \* ---- Host.HandlePeerFound and the network notifications (SpecHost) ----
    hostMutex,        \* Host.mutex: "free", or the peer whose HandlePeerFound holds it
    hostPeers,        \* the keys of Host.peers
    finders,          \* peer -> position of the HandlePeerFound call for it
    notifs,           \* notifications raised and not yet completed:
                      \* <<kind, peer, whether Connect waits for it>>
    conns,            \* the peers the swarm has a connection with
    \* ---- the console UI (SpecConsole) ----
    uiRunning,        \* ConsoleUI.running
    routines,         \* update routine -> where it is: "render", "select", "return"
    uiStarts          \* number of update routines started so far

prototypeVars == <<farmScores, peerScores, tolCheck>>
inboundVars == <<panicked, mutexHeld>>
\* The state of the programs built around the engines.
protocolVars == <<streamMap, streams, inbox, readers, sendCalls, peerCache, consumed,
                  written, bcast, broadcasts>>
blockVars == <<latestBlock, lastBlock, blockTarget, processed, blockLog, poll, verificationQueue,
               lastBlockSeen, statusBlocks>>
stopVars == <<alive, engineRunning, engineCtxDone, callerCtxDone, stopped, afterStop>>
lockVars == <<engineMutex, resultsMutex, lockTasks>>
proofVars == <<proofs, lastGenerate, lastVerify>>
startVars == <<valRunning, valCancel, ctxsDone, valTasks, p2pHost, lastCall>>
foundVars == <<hostMutex, hostPeers, finders, notifs, conns>>
consoleVars == <<uiRunning, routines, uiStarts>>
auxVars == <<lockVars, proofVars, startVars, foundVars, consoleVars>>
hostVars == <<inboundVars, protocolVars, blockVars, stopVars, auxVars>>
engineVars == <<consensusResults, resultCounts, engineCheck, hostVars>>
quorumVars == <<scoreResults, lastCheck, prototypeVars, engineVars, calcLog>>
clusterVars == <<nodeScores, nodePending, backlog, sent, handled, now>>
discoveryVars == <<lastSeen, beaconTimer, down, evicted, added>>
gossipVars == <<peers, knownMessages, net, tasks, callbackLog, sendLog, apiLog, apiCalls,
                clusterVars, discoveryVars>>
validatorVars == <<pendingRequests, checker, farmTimer, fetch, usedIDs, handlers,
                   stay, decided, retired, submitMayFail>>
vars == <<quorumVars, gossipVars, validatorVars>>

-----------------------------------------------------------------------------
(* Generic helpers *)

\* All orders in which a Go `range` may visit the keys in S.
Orders(S) == {o \in [1..Cardinality(S) -> S] : \A i, j \in DOMAIN o : o[i] = o[j] => i = j}

\* m[k] = v on a Go map held as a function with a variable domain.
MapSet(m, k, v) == [x \in DOMAIN m \cup {k} |-> IF x = k THEN v ELSE m[x]]

\* delete(m, k)
MapDelete(m, k) == [x \in DOMAIN m \ {k} |-> m[x]]

EmptyMap == [x \in {} |-> 0]

-----------------------------------------------------------------------------
(* Exact-match quorum: GossipEngine.CheckConsensus *)

\* scoreCounts[score]++ for every vote
ScoreCounts(results) ==
    [s \in {results[v] : v \in DOMAIN results} |->
        Cardinality({v \in DOMAIN results : results[v] = s})]

\* The loop "for score, count := range scoreCounts" visiting the keys in `order`:
\* returns <<maxCount, consensusScore>>.
RECURSIVE FindMaxCount(_, _, _, _)
FindMaxCount(counts, order, maxCount, consensusScore) ==
    IF order = <<>> THEN <<maxCount, consensusScore>>
    ELSE LET score == Head(order)
             count == counts[score]
         IN  IF count > maxCount
             THEN FindMaxCount(counts, Tail(order), count, score)
             ELSE FindMaxCount(counts, Tail(order), maxCount, consensusScore)

\* The 2/3 test of CheckConsensus.
MutHasMajority(maxCount, totalParticipants) == maxCount * 3 > totalParticipants * 2
MutHalfMajority(maxCount, totalParticipants) == maxCount * 2 >= totalParticipants
HasMajority(maxCount, totalParticipants) == maxCount * 3 >= totalParticipants * 2

\* CheckConsensus(requestID) on vote table sr, the count map visited in `order`.
CheckConsensus(sr, requestID, order) ==
    IF requestID \notin DOMAIN sr \/ DOMAIN sr[requestID] = {}
    THEN <<FALSE, 0>>
    ELSE LET results == sr[requestID]
             m == FindMaxCount(ScoreCounts(results), order, 0, 0)
             totalParticipants == Cardinality(DOMAIN results)
         IN  IF HasMajority(m[1], totalParticipants)
             THEN <<TRUE, m[2]>>
             ELSE <<FALSE, 0>>

\* The iteration orders CheckConsensus may take on request requestID.
CountOrders(sr, requestID) ==
    IF requestID \in DOMAIN sr
    THEN Orders({sr[requestID][v] : v \in DOMAIN sr[requestID]})
    ELSE {<<>>}

\* processMessage, case "farm_score": scoreResults[RequestID][Sender] = FarmScore
StoreScore(sr, requestID, sender, score) ==
    MapSet(sr, requestID,
           MapSet(IF requestID \in DOMAIN sr THEN sr[requestID] ELSE EmptyMap,
                  sender, score))

-----------------------------------------------------------------------------
(* Score calculator, on the series the model feeds it *)

\* Returns are held in tenths: 24 stands for 2.4.  MockReturns is the series
\* FarmDataFetcher.FetchFarmData returns.
MockReturns == <<24, 47, 36, -12, 53, 21, 38, -5, 19, 42>>

\* The score CalculateFarmScore gives for MockReturns: 35.367398, in millionths.
MockScore == 35367398

\* The returns series inbound farm_data messages carry in the model: the empty
\* series, one-element series and the mock series.
FarmDataInputs == {<<>>, <<0>>, <<24>>, MockReturns}

\* CalculateFarmScore on FarmDataInputs.  An empty series gives 0.  For a series
\* of one return r the Sharpe and Sortino ratios and the drawdown are 0
\* (len < 2) and the score is round(2*r*10^6)/10^6 = 2*r; r is held in tenths,
\* so the score in millionths is r * 200000.
CalculateFarmScore(returns) ==
    IF Len(returns) = 0 THEN 0
    ELSE IF Len(returns) = 1 THEN returns[1] * 200000
    ELSE MockScore

\* The scores votes carry in the model.
Scores == {CalculateFarmScore(d) : d \in FarmDataInputs \ {<<>>}}

-----------------------------------------------------------------------------
(* Bounds and input sets *)

\* Number of senders whose votes one engine records in SpecQuorum.
NumVoters == 4

QuorumVoters == 1..NumVoters

\* The request votes are recorded for, and a request id no vote names.
RequestIDs == {"farm-data-100"}
UnknownRequest == "farm-data-999"

-----------------------------------------------------------------------------
(* Initial values of each group of variables *)

NoCheck == [called |-> FALSE, requestID |-> "", ret |-> <<FALSE, 0>>]

\* NewValidator of the prototype; no call of its CheckConsensus made.
PrototypeIdle ==
    /\ farmScores = EmptyMap
    /\ peerScores = EmptyMap
    /\ tolCheck = [called |-> FALSE]

\* consensus.NewEngine; no call of its CheckConsensus made.
EngineIdle ==
    /\ consensusResults = EmptyMap
    /\ resultCounts = EmptyMap
    /\ engineCheck = [called |-> FALSE]

InboundIdle == panicked = {} /\ mutexHeld = {}

ProtocolIdle ==
    /\ streamMap = EmptyMap
    /\ streams = EmptyMap
    /\ inbox = EmptyMap
    /\ readers = {}
    /\ sendCalls = EmptyBag
    /\ peerCache = EmptyMap
    /\ consumed = {}
    /\ written = {}
    /\ bcast = [active |-> FALSE, queue |-> <<>>]
    /\ broadcasts = 0

BlocksIdle ==
    /\ latestBlock = 0
    /\ blockLog = <<>>
    /\ poll = [L |-> 0, from |-> 0, done |-> FALSE]
    /\ lastBlock = 0
    /\ blockTarget = 0
    /\ processed = {}
    /\ verificationQueue = {}
    /\ lastBlockSeen = 0
    /\ statusBlocks = {}

StopIdle ==
    /\ alive = {}
    /\ engineRunning = FALSE
    /\ engineCtxDone = FALSE
    /\ callerCtxDone = FALSE
    /\ stopped = FALSE
    /\ afterStop = {}

LocksIdle ==
    /\ engineMutex = [writer |-> 0, readers |-> 0, waiting |-> 0]
    /\ resultsMutex = 0
    /\ lockTasks = EmptyBag

ProofIdle ==
    /\ proofs = EmptyMap
    /\ lastGenerate = [called |-> FALSE]
    /\ lastVerify = [called |-> FALSE]

StartIdle ==
    /\ valRunning = FALSE
    /\ valCancel = 0
    /\ ctxsDone = {}
    /\ valTasks = {}
    /\ p2pHost = "nil"
    /\ lastCall = [op |-> "none", err |-> "nil", prev |-> "nil"]

FoundIdle ==
    /\ hostMutex = "free"
    /\ hostPeers = {}
    /\ finders = <<>>
    /\ notifs = {}
    /\ conns = {}

ConsoleIdle ==
    /\ uiRunning = FALSE
    /\ routines = EmptyMap
    /\ uiStarts = 0

AuxIdle == LocksIdle /\ ProofIdle /\ StartIdle /\ FoundIdle /\ ConsoleIdle

HostIdle == InboundIdle /\ ProtocolIdle /\ BlocksIdle /\ StopIdle /\ AuxIdle

QuorumInit ==
    /\ HostIdle
    /\ scoreResults = EmptyMap
    /\ lastCheck = NoCheck
    /\ PrototypeIdle
    /\ EngineIdle
    /\ calcLog = {}

ClusterIdle ==
    /\ nodeScores = EmptyMap
    /\ nodePending = EmptyMap
    /\ backlog = EmptyMap
    /\ sent = {}
    /\ handled = {}
    /\ now = 0

DiscoveryIdle ==
    /\ lastSeen = EmptyMap
    /\ beaconTimer = EmptyMap
    /\ down = {}
    /\ evicted = {}
    /\ added = 0

GossipIdle ==
    /\ ClusterIdle
    /\ DiscoveryIdle
    /\ peers = EmptyMap
    /\ knownMessages = EmptyMap
    /\ net = EmptyBag
    /\ tasks = EmptyBag
    /\ callbackLog = EmptyBag
    /\ sendLog = EmptyBag
    /\ apiLog = EmptyBag
    /\ apiCalls = 0

\* Time is counted in units of 5 seconds, the period of the decision loop's
\* ticker.
CheckInterval == 1

\* 5*time.Minute, the age after which an undecided request is dropped.
RequestTimeout == 60

\* The period of the fetch loop's ticker, 30 seconds.
FarmDataInterval == 6

\* Ages are counted up to AgeCap; all greater ages behave alike.
AgeCap == RequestTimeout + CheckInterval + 1

IdleChecker ==
    [pc |-> "idle", queue |-> {}, cur |-> "", reached |-> FALSE, score |-> 0, failed |-> {}]

IdleFetch == [pc |-> "idle", requestID |-> ""]

ValidatorStart ==
    /\ pendingRequests = EmptyMap
    /\ checker = IdleChecker
    /\ farmTimer = FarmDataInterval
    /\ fetch = IdleFetch
    /\ usedIDs = {}
    /\ handlers = EmptyBag
    /\ stay = EmptyMap
    /\ decided = EmptyMap
    /\ retired = {}

ValidatorIdle == ValidatorStart /\ submitMayFail = FALSE

-----------------------------------------------------------------------------
(* SpecQuorum: one engine; votes arrive, CheckConsensus is called *)

\* processMessage on a farm_score message: the vote is stored (a later vote of
\* the same sender overwrites the earlier one).
QReceiveFarmScore ==
    \E requestID \in RequestIDs, sender \in QuorumVoters, score \in Scores :
        /\ scoreResults' = StoreScore(scoreResults, requestID, sender, score)
        /\ lastCheck' = NoCheck
        /\ UNCHANGED <<prototypeVars, engineVars, calcLog, gossipVars, validatorVars>>

\* A call of CheckConsensus; the count map is visited in any order.
QCheckConsensus ==
    \E requestID \in RequestIDs \cup {UnknownRequest} :
        \E order \in CountOrders(scoreResults, requestID) :
            /\ lastCheck' = [called |-> TRUE, requestID |-> requestID,
                             ret |-> CheckConsensus(scoreResults, requestID, order)]
            /\ UNCHANGED <<scoreResults, prototypeVars, engineVars, calcLog, gossipVars,
                           validatorVars>>

InitQuorum == QuorumInit /\ GossipIdle /\ ValidatorIdle
NextQuorum == QReceiveFarmScore \/ QCheckConsensus
SpecQuorum == InitQuorum /\ [][NextQuorum]_vars

\* The votes recorded for the request of the last CheckConsensus call.
LastVotes ==
    IF lastCheck.requestID \in DOMAIN scoreResults
    THEN scoreResults[lastCheck.requestID] ELSE EmptyMap

Held(votes, s) == Cardinality({v \in DOMAIN votes : votes[v] = s})

\* C3: for a request with at least two recorded votes CheckConsensus returns
\* (true, s) exactly when score s is held by at least 2/3 of the votes
\* (count*3 >= total*2) and (false, 0) when no score is; for an unknown request
\* or one without votes it returns (false, 0).
C3_CheckConsensusQuorum ==
    lastCheck.called =>
        LET votes == LastVotes
            total == Cardinality(DOMAIN votes)
            Reaches(s) == Held(votes, s) * 3 >= total * 2
        IN  /\ total = 0 => lastCheck.ret = <<FALSE, 0>>
            /\ total >= 2 =>
                 /\ \A s \in Scores : Reaches(s) => lastCheck.ret = <<TRUE, s>>
                 /\ (~ \E s \in Scores : Reaches(s)) => lastCheck.ret = <<FALSE, 0>>
                 /\ \A s \in Scores : lastCheck.ret = <<TRUE, s>> => Reaches(s)

\* C3 witness: three votes, exactly two of them for the score returned.
C3_Witness ==
    /\ lastCheck.called
    /\ Cardinality(DOMAIN LastVotes) = 3
    /\ lastCheck.ret[1]
    /\ Held(LastVotes, lastCheck.ret[2]) = 2

\* C32: the return of CheckConsensus is the same for every iteration order of
\* the count map, and when it is (true, s), s is the one score that at least
\* 2/3 of the recorded votes hold.
C32_DecisionIsFunctionOfVotes ==
    lastCheck.called =>
        LET votes == LastVotes
            total == Cardinality(DOMAIN votes)
        IN  /\ \A order \in CountOrders(scoreResults, lastCheck.requestID) :
                  CheckConsensus(scoreResults, lastCheck.requestID, order) = lastCheck.ret
            /\ lastCheck.ret[1] =>
                  {s \in Scores : Held(votes, s) * 3 >= total * 2} = {lastCheck.ret[2]}

\* C32 witness: four votes over two scores, three of them for the score
\* returned, so the count map has two keys and two iteration orders.
C32_Witness ==
    /\ lastCheck.called
    /\ lastCheck.ret[1]
    /\ Cardinality(DOMAIN LastVotes) = 4
    /\ Cardinality({LastVotes[v] : v \in DOMAIN LastVotes}) = 2
    /\ Held(LastVotes, lastCheck.ret[2]) = 3

-----------------------------------------------------------------------------
(* SpecGossip: a ring of GossipEngine nodes *)

\* Number of nodes of the ring.
NumNodes == 4

\* Number of API broadcasts (Broadcast, BroadcastFarmData) made in a run.
MaxApiCalls == 2

\* Unix seconds the origin reads from its clock (time.Now().Unix()): the API
\* calls of a run fall in the same second.
Timestamps == {1}

NodeNames == <<"A", "B", "C", "D", "E", "F">>
Nodes == {NodeNames[i] : i \in 1..NumNodes}
NodeIndex(n) == CHOOSE i \in 1..NumNodes : NodeNames[i] = n

\* The two ring neighbours of node n.
RingPeers(n) ==
    {NodeNames[(NodeIndex(n) % NumNodes) + 1],
     NodeNames[((NodeIndex(n) + NumNodes - 2) % NumNodes) + 1]}

\* Message struct
Message(type, sender, requestID, farmData, farmScore, timestamp) ==
    [type |-> type, sender |-> sender, requestID |-> requestID,
     farmData |-> farmData, farmScore |-> farmScore, timestamp |-> timestamp]

\* msgID := fmt.Sprintf("%s-%s-%d", msg.Type, msg.Sender, msg.Timestamp)
MsgID(msg) == msg.type \o "-" \o msg.sender \o "-" \o ToString(msg.timestamp)

\* Message types a callback is registered for (NewValidatorP2PIntegration).
CallbackTypes == {"farm_data", "farm_score"}

\* The node whose application broadcasts; the other nodes relay.
Origin == "A"

\* The envelopes the origin hands to Broadcast in the model.
BroadcastInputs(n) ==
    {Message("farm_data", n, "farm-data-100", MockReturns, 0, ts) : ts \in Timestamps}

\* A goroutine of node n at position pc working on msg; snap is the copy of the
\* peer table broadcastMessage takes in its first critical section (RLock).
\* No action of SpecGossip changes a peer table, so the copy is taken in the
\* step that starts the goroutine.
Task(n, kind, pc, msg, snap) ==
    [node |-> n, kind |-> kind, pc |-> pc, msg |-> msg, snap |-> snap]

\* A connection dialled by `from` to `to`, carrying msg.
Conn(from, to, msg) == [from |-> from, to |-> to, msg |-> msg]

InitGossip ==
    /\ peers = [n \in Nodes |-> RingPeers(n)]
    /\ knownMessages = [n \in Nodes |-> {}]
    /\ net = EmptyBag
    /\ tasks = EmptyBag
    /\ callbackLog = EmptyBag
    /\ sendLog = EmptyBag
    /\ apiLog = EmptyBag
    /\ apiCalls = 0
    /\ ClusterIdle
    /\ DiscoveryIdle
    /\ QuorumInit
    /\ ValidatorIdle

\* processMessage's last step: the callback registered for msg.Type, if any, is
\* called.  (No case of the switch changes engine state for farm_data
\* messages.)  Every dial succeeds and every message sent is delivered; the
\* peers' LastSeen times play no part in relaying and are left out.
InvokeCallback(log, n, msg) ==
    IF msg.type \in CallbackTypes
    THEN log (+) SetToBag({<<n, MsgID(msg)>>})
    ELSE log

\* Broadcast(msg): a goroutine of node n enters Broadcast.
CallBroadcast ==
    \E n \in {Origin} : \E msg \in BroadcastInputs(n) :
        /\ apiCalls < MaxApiCalls
        /\ apiCalls' = apiCalls + 1
        /\ tasks' = tasks (+) SetToBag({Task(n, "Broadcast", "check", msg, peers[n])})
        /\ UNCHANGED <<peers, knownMessages, net, callbackLog, sendLog, apiLog,
                       quorumVars, validatorVars,
                       clusterVars, discoveryVars>>

\* BroadcastFarmData(requestID, farmData): builds the farm_data message and
\* calls broadcastMessage.
CallBroadcastFarmData ==
    \E n \in {Origin}, ts \in Timestamps :
        /\ apiCalls < MaxApiCalls
        /\ apiCalls' = apiCalls + 1
        /\ tasks' = tasks (+) SetToBag({Task(n, "broadcastMessage", "check",
                        Message("farm_data", n, "farm-data-100", MockReturns, 0, ts), peers[n])})
        /\ UNCHANGED <<peers, knownMessages, net, callbackLog, sendLog, apiLog,
                       quorumVars, validatorVars,
                       clusterVars, discoveryVars>>

\* handleConnection: accept a connection, decode the message, processMessage
\* (callback), then go on to relay it with broadcastMessage.
HandleConnection ==
    \E c \in BagToSet(net) :
        /\ net' = net (-) SetToBag({c})
        /\ callbackLog' = InvokeCallback(callbackLog, c.to, c.msg)
        /\ tasks' = tasks (+) SetToBag({Task(c.to, "conn", "check", c.msg, peers[c.to])})
        /\ UNCHANGED <<peers, knownMessages, sendLog, apiLog, apiCalls,
                       quorumVars, validatorVars,
                       clusterVars, discoveryVars>>

\* Whether broadcastMessage returns early: the id is in knownMessages.
MutAlreadyKnown(known, msgID) == FALSE
AlreadyKnown(known, msgID) == msgID \in known

\* What becomes of a goroutine when its broadcastMessage call returns:
\* Broadcast goes on to processMessage, the others end.
AfterBroadcastMessage(t) ==
    IF t.kind = "Broadcast"
    THEN SetToBag({Task(t.node, t.kind, "process", t.msg, {})})
    ELSE EmptyBag

AfterBroadcastMessageLog(t) ==
    IF t.kind = "broadcastMessage"
    THEN SetToBag({<<t.node, t.kind, MsgID(t.msg)>>})
    ELSE EmptyBag

\* broadcastMessage, critical section (Lock): test and set
\* knownMessages[msgID]; when the id is new, one goroutine per peer of the
\* snapshot dials the peer and sends the message.
CheckKnownAndSend ==
    \E t \in BagToSet(tasks) :
        /\ t.pc = "check"
        /\ tasks' = (tasks (-) SetToBag({t})) (+) AfterBroadcastMessage(t)
        /\ apiLog' = apiLog (+) AfterBroadcastMessageLog(t)
        /\ IF AlreadyKnown(knownMessages[t.node], MsgID(t.msg))
           THEN UNCHANGED <<knownMessages, net, sendLog>>
           ELSE /\ knownMessages' = [knownMessages EXCEPT ![t.node] = @ \cup {MsgID(t.msg)}]
                /\ net' = net (+) SetToBag({Conn(t.node, p, t.msg) : p \in t.snap})
                /\ sendLog' = sendLog (+) SetToBag({<<t.node, p, MsgID(t.msg)>> : p \in t.snap})
        /\ UNCHANGED <<peers, callbackLog, apiCalls, quorumVars, validatorVars,
                       clusterVars, discoveryVars>>

\* Broadcast, after broadcastMessage: processMessage(msg) on the local node.
ProcessLocally ==
    \E t \in BagToSet(tasks) :
        /\ t.pc = "process"
        /\ tasks' = tasks (-) SetToBag({t})
        /\ callbackLog' = InvokeCallback(callbackLog, t.node, t.msg)
        /\ apiLog' = apiLog (+) SetToBag({<<t.node, t.kind, MsgID(t.msg)>>})
        /\ UNCHANGED <<peers, knownMessages, net, sendLog, apiCalls,
                       quorumVars, validatorVars,
                       clusterVars, discoveryVars>>

NextGossip ==
    \/ CallBroadcast
    \/ CallBroadcastFarmData
    \/ HandleConnection
    \/ CheckKnownAndSend
    \/ ProcessLocally

SpecGossip == InitGossip /\ [][NextGossip]_vars

\* No connection is in flight and no goroutine is running.
Quiescent == net = EmptyBag /\ tasks = EmptyBag

\* The message ids of the envelopes the origin broadcasts.
BroadcastIDs == {MsgID(m) : m \in BroadcastInputs(Origin)}

\* Number of API broadcasts of id that node n has completed.
Completed(n, id) ==
    CopiesIn(<<n, "Broadcast", id>>, apiLog) + CopiesIn(<<n, "broadcastMessage", id>>, apiLog)

\* C1: for every message id and node, the callback registered for the
\* message's type is invoked at most once, however often the message arrives
\* or is passed to Broadcast.
C1_CallbackAtMostOnce ==
    \A e \in BagToSet(callbackLog) : CopiesIn(e, callbackLog) <= 1

\* C2: broadcasting the same envelope again (same type, sender, timestamp)
\* sends nothing more: whatever number of broadcastMessage calls a node has
\* made for an id, sequentially or concurrently, its sends for that id are
\* those of one call, one to each peer.
C2_BroadcastTwiceSendsOnce ==
    \A n \in Nodes, id \in BroadcastIDs, p \in Nodes :
        CopiesIn(<<n, p, id>>, sendLog) =
            (IF id \in knownMessages[n] /\ p \in peers[n] THEN 1 ELSE 0)

\* C2 witness: the origin has completed two broadcasts of the same envelope
\* and the flood has ended.
C2_Witness ==
    /\ Quiescent
    /\ \E id \in BroadcastIDs :
          /\ Completed(Origin, id) >= 2
          /\ \A p \in peers[Origin] : CopiesIn(<<Origin, p, id>>, sendLog) = 1

\* C10: in the ring, after the origin has broadcast one envelope and the
\* relays have ended, the callback has been invoked exactly once at each of
\* the other nodes.
C10_RingExactlyOnce ==
    (Quiescent /\ apiCalls = 1) =>
        \A id \in BroadcastIDs : Completed(Origin, id) = 1 =>
            \A n \in Nodes \ {Origin} : CopiesIn(<<n, id>>, callbackLog) = 1

\* The ring with reliable delivery and fair scheduling: a connection made is
\* handled and a goroutine started runs on.
SpecFlood ==
    /\ InitGossip
    /\ [][NextGossip]_vars
    /\ WF_vars(HandleConnection)
    /\ WF_vars(CheckKnownAndSend)
    /\ WF_vars(ProcessLocally)

\* C33: in the ring a node sends an envelope to each of its peers at most once,
\* and the flood ends: from some point on no connection is in flight and no
\* goroutine is running.
C33_FloodTerminates ==
    /\ [](\A n \in Nodes, p \in Nodes, id \in BroadcastIDs :
             CopiesIn(<<n, p, id>>, sendLog) <= 1)
    /\ <>[]Quiescent

\* C33 witness: the flood of an envelope has gone round the cycle and ended:
\* every node has sent it once to both of its neighbours, so every node has
\* received it twice.
C33_Witness ==
    /\ Quiescent
    /\ \E id \in BroadcastIDs :
          /\ \A n \in Nodes : id \in knownMessages[n]
          /\ \A n \in Nodes : \A p \in RingPeers(n) : CopiesIn(<<n, p, id>>, sendLog) = 1
          /\ BagCardinality(sendLog) = 2 * NumNodes

\* C19: a node that relays an inbound message leaves the peer it received the
\* message from out of the fan-out.  A node relays an id once and every frame
\* it receives comes from a peer that sent it, so a node other than the origin
\* that has sent the id has some peer that sent the id to it and to which it
\* has not sent the id.
C19_RelayExcludesSender ==
    \A n \in Nodes \ {Origin}, id \in BroadcastIDs :
        (\E p \in Nodes : CopiesIn(<<n, p, id>>, sendLog) > 0) =>
            \E q \in Nodes :
                /\ CopiesIn(<<q, n, id>>, sendLog) > 0
                /\ CopiesIn(<<n, q, id>>, sendLog) = 0

-----------------------------------------------------------------------------
(* SpecValidator: one ValidatorP2PIntegration node *)

\* Number of peers whose messages reach the node.
NumValidatorPeers == 2

\* Number of message callbacks that may be running at the same time.
MaxInFlight == 1

\* The node's own id (nodeID) and the peers it hears from.
Self == NodeNames[1]
ValidatorPeers == {NodeNames[i + 1] : i \in 1..NumValidatorPeers}

Min(a, b) == IF a < b THEN a ELSE b

\* Every stored age grows by one time unit.
Older(ages) == [r \in DOMAIN ages |-> Min(ages[r] + CheckInterval, AgeCap)]

\* A running message callback for request r that has still to add r to
\* pendingRequests; late: r had been retired and was not open when the message
\* arrived.
Handler(type, r) ==
    [type |-> type, requestID |-> r,
     late |-> r \in retired /\ r \notin DOMAIN pendingRequests]

\* The results submitConsensusResult may return (TRUE: an error).  The function
\* in the source always returns nil.
SubmitErrors == IF submitMayFail THEN {FALSE, TRUE} ELSE {FALSE}

\* Five seconds pass: both tickers advance.  The bodies of the loops and the
\* callbacks take no time: they end before the next time unit.
Tick ==
    /\ checker.pc = "idle"
    /\ fetch.pc = "idle"
    /\ handlers = EmptyBag
    /\ pendingRequests' = Older(pendingRequests)
    /\ stay' = Older(stay)
    /\ checker' = [checker EXCEPT !.pc = "due"]
    /\ IF usedIDs = RequestIDs
       THEN UNCHANGED <<farmTimer, fetch>>
       ELSE IF farmTimer = 1
            THEN /\ farmTimer' = FarmDataInterval
                 /\ fetch' = [pc |-> "due", requestID |-> ""]
            ELSE /\ farmTimer' = farmTimer - 1
                 /\ UNCHANGED fetch
    /\ UNCHANGED <<usedIDs, handlers, decided, retired, submitMayFail,
                   quorumVars, gossipVars>>

\* The decision loop goes on with the ids left of its snapshot, or back to
\* waiting for its ticker.
NextInPass(queue, failed) ==
    [pc |-> IF queue = {} THEN "idle" ELSE "scan", queue |-> queue, cur |-> "",
     reached |-> FALSE, score |-> 0, failed |-> failed]

\* checkConsensus, on a tick: copy the keys of pendingRequests.
StartPass ==
    /\ checker.pc = "due"
    /\ checker' = NextInPass(DOMAIN pendingRequests, {})
    /\ UNCHANGED <<pendingRequests, farmTimer, fetch, usedIDs, handlers, stay,
                   decided, retired, submitMayFail, quorumVars, gossipVars>>

\* The test "time.Since(requestTime) > 5*time.Minute"
TimedOut(age) == age > RequestTimeout

\* What the decision loop does after submitConsensusResult returned err.
AfterSubmit(requestID, score, err) ==
    IF err
    THEN NextInPass(checker.queue \ {requestID}, checker.failed \cup {requestID})
    ELSE [pc |-> "delete", queue |-> checker.queue \ {requestID}, cur |-> requestID,
          reached |-> TRUE, score |-> score, failed |-> checker.failed]

\* checkConsensus, one request of the snapshot: CheckConsensus; when reached,
\* submitConsensusResult, and on success go on to delete the request; when not
\* reached, read the request's time and go on to delete it when it is older
\* than the timeout.
Examine ==
    \E r \in checker.queue :
      \E order \in CountOrders(scoreResults, r) :
        \E err \in SubmitErrors :
          LET ret == CheckConsensus(scoreResults, r, order)
          IN  /\ checker.pc = "scan"
              /\ IF ret[1]
                 THEN /\ checker' = AfterSubmit(r, ret[2], err)
                      /\ decided' = IF r \in DOMAIN decided THEN decided
                                    ELSE MapSet(decided, r, ret[2])
                 ELSE /\ checker' =
                            IF r \in DOMAIN pendingRequests /\ TimedOut(pendingRequests[r])
                            THEN [pc |-> "delete", queue |-> checker.queue \ {r}, cur |-> r,
                                  reached |-> FALSE, score |-> 0, failed |-> checker.failed]
                            ELSE NextInPass(checker.queue \ {r}, checker.failed)
                      /\ UNCHANGED decided
              /\ UNCHANGED <<pendingRequests, farmTimer, fetch, usedIDs, handlers, stay,
                             retired, submitMayFail, quorumVars, gossipVars>>

\* checkConsensus: delete(v.pendingRequests, requestID)
DeleteRequest ==
    /\ checker.pc = "delete"
    /\ pendingRequests' = MapDelete(pendingRequests, checker.cur)
    /\ stay' = MapDelete(stay, checker.cur)
    /\ retired' = retired \cup {checker.cur}
    /\ checker' = NextInPass(checker.queue, checker.failed)
    /\ UNCHANGED <<farmTimer, fetch, usedIDs, handlers, decided, submitMayFail,
                   quorumVars, gossipVars>>

\* processFarmData, on a tick: the request id is made from the clock's second
\* (an id not generated before; peers may have named it already), the mock
\* data are fetched and broadcast, the score is calculated and
\* BroadcastFarmScore stores it as the node's own vote.
FetchStoreScore ==
    \E id \in RequestIDs \ usedIDs :
        /\ fetch.pc = "due"
        /\ usedIDs' = usedIDs \cup {id}
        /\ scoreResults' = StoreScore(scoreResults, id, Self, CalculateFarmScore(MockReturns))
        /\ fetch' = [pc |-> "pend", requestID |-> id]
        /\ UNCHANGED <<pendingRequests, checker, farmTimer, handlers, stay, decided,
                       retired, submitMayFail, lastCheck, prototypeVars,
                   engineVars, calcLog, gossipVars>>

\* pendingRequests[requestID] = time.Now() as processFarmData does it.
StampRequest(pending, requestID) == MapSet(pending, requestID, 0)

\* if _, ok := pendingRequests[id]; !ok { pendingRequests[id] = time.Now() }
AddIfAbsent(pending, requestID) ==
    IF requestID \in DOMAIN pending THEN pending ELSE MapSet(pending, requestID, 0)

\* processFarmData, last step: pendingRequests[requestID] = time.Now()
FetchAddPending ==
    /\ fetch.pc = "pend"
    /\ pendingRequests' = StampRequest(pendingRequests, fetch.requestID)
    /\ stay' = AddIfAbsent(stay, fetch.requestID)
    /\ fetch' = IdleFetch
    /\ UNCHANGED <<checker, farmTimer, usedIDs, handlers, decided, retired,
                   submitMayFail, quorumVars, gossipVars>>

\* An inbound farm_score message of peer `sender` for request r carrying
\* `score`: processMessage stores the vote and calls handleFarmScoreMessage.
FarmScoreFrom(r, sender, score) ==
    /\ BagCardinality(handlers) < MaxInFlight
    /\ scoreResults' = StoreScore(scoreResults, r, sender, score)
    /\ handlers' = handlers (+) SetToBag({Handler("farm_score", r)})
    /\ UNCHANGED <<pendingRequests, checker, farmTimer, fetch, usedIDs, stay,
                   decided, retired, submitMayFail, lastCheck, prototypeVars,
                   engineVars, calcLog, gossipVars>>

\* An inbound farm_score message of any peer for request r.
FarmScoreArrives(r) ==
    \E sender \in ValidatorPeers, score \in Scores : FarmScoreFrom(r, sender, score)

ReceiveFarmScore == \E r \in RequestIDs : FarmScoreArrives(r)

\* An inbound farm_data message of a peer: processMessage calls
\* handleFarmDataMessage, which returns at once on an empty series and
\* otherwise calculates the score and has BroadcastFarmScore store it as the
\* node's own vote.
ReceiveFarmData ==
    \E r \in RequestIDs, data \in FarmDataInputs :
        /\ BagCardinality(handlers) < MaxInFlight
        /\ Len(data) # 0
        /\ scoreResults' = StoreScore(scoreResults, r, Self, CalculateFarmScore(data))
        /\ handlers' = handlers (+) SetToBag({Handler("farm_data", r)})
        /\ UNCHANGED <<pendingRequests, checker, farmTimer, fetch, usedIDs, stay,
                       decided, retired, submitMayFail, lastCheck, prototypeVars,
                   engineVars, calcLog, gossipVars>>

\* handleFarmDataMessage / handleFarmScoreMessage, last step: add the request
\* to pendingRequests if it is not there.
HandlerAdds(h) ==
    /\ BagIn(h, handlers)
    /\ handlers' = handlers (-) SetToBag({h})
    /\ pendingRequests' = AddIfAbsent(pendingRequests, h.requestID)
    /\ stay' = AddIfAbsent(stay, h.requestID)
    /\ UNCHANGED <<checker, farmTimer, fetch, usedIDs, decided, retired,
                   submitMayFail, quorumVars, gossipVars>>

HandlerAddPending == \E h \in BagToSet(handlers) : HandlerAdds(h)

InitValidator ==
    /\ ValidatorStart
    /\ submitMayFail = FALSE
    /\ QuorumInit
    /\ GossipIdle

InitSubmitErr ==
    /\ ValidatorStart
    /\ submitMayFail = TRUE
    /\ QuorumInit
    /\ GossipIdle

NextValidator ==
    \/ Tick
    \/ StartPass
    \/ Examine
    \/ DeleteRequest
    \/ FetchStoreScore
    \/ FetchAddPending
    \/ ReceiveFarmScore
    \/ ReceiveFarmData
    \/ HandlerAddPending

SpecValidator == InitValidator /\ [][NextValidator]_vars

\* The same node when the contract call behind submitConsensusResult can fail.
SpecSubmitErr == InitSubmitErr /\ [][NextValidator]_vars

-----------------------------------------------------------------------------
(* Claims about the validator node *)

\* The votes recorded for request r.
Votes(r) == IF r \in DOMAIN scoreResults THEN scoreResults[r] ELSE EmptyMap

\* The decision loop has just found consensus for checker.cur and called
\* submitConsensusResult with checker.score (in SpecValidator the call
\* succeeds and the loop goes on to delete the request).
Submitting == checker.pc = "delete" /\ checker.reached

\* The step in which the decision loop calls submitConsensusResult.
SubmitStep == checker.pc = "scan" /\ checker'.pc = "delete" /\ checker'.reached

\* C4: the exact-match quorum never decides a request with fewer than 2
\* votes, so a node holding only one vote never submits a result.  (Votes are
\* never removed, so the number of votes while the submission is being
\* completed is at least the number CheckConsensus saw.)
C4_NoDecisionBelowTwoVotes ==
    Submitting => Cardinality(DOMAIN Votes(checker.cur)) >= 2

\* C5: once a request has been found decided with score s, votes arriving
\* afterwards do not change the decision: CheckConsensus still returns
\* (true, s), and no other score is submitted for the request.
C5_DecisionStable ==
    \A r \in DOMAIN decided :
        /\ \A order \in CountOrders(scoreResults, r) :
              CheckConsensus(scoreResults, r, order) = <<TRUE, decided[r]>>
        /\ (Submitting /\ checker.cur = r) => checker.score = decided[r]

\* C6: a farm_score arriving for a request that has been retired (removed from
\* pendingRequests) changes neither the recorded votes nor pendingRequests:
\* neither when processMessage handles it nor when its callback ends.
C6_RetiredIgnoresFarmScore ==
    [][\A r \in RequestIDs :
          (\/ r \in retired /\ r \notin DOMAIN pendingRequests /\ FarmScoreArrives(r)
           \/ \E h \in BagToSet(handlers) :
                 h.type = "farm_score" /\ h.late /\ h.requestID = r /\ HandlerAdds(h))
          => (scoreResults' = scoreResults /\ pendingRequests' = pendingRequests)]_vars

\* C7: submitConsensusResult is called at most once for a request id: it is
\* never called for a request it has been called for before.
C7_SubmitAtMostOnce ==
    [][SubmitStep => checker'.cur \notin DOMAIN decided]_vars

\* C8: a request that entered pendingRequests is out of it within the timeout
\* plus one check interval: no request stays longer, and one that has stayed
\* exactly that long is removed by the pass of that instant.
C8_RetiredWithinTimeout ==
    \A r \in DOMAIN pendingRequests :
        /\ stay[r] <= RequestTimeout + CheckInterval
        /\ stay[r] = RequestTimeout + CheckInterval => checker.pc # "idle"

-----------------------------------------------------------------------------
(* SpecDistinctVotes: one validator node in a run where the three nodes (the  *)
(* node itself and its two peers) each vote once for the request, with        *)
(* pairwise distinct scores.  The node's own vote is the one of its fetch     *)
(* loop; the peers' votes arrive at any time, before or after it, between     *)
(* any two ticks of the decision loop.                                        *)

\* The scores recorded for request r.
VotedScores(r) == {Votes(r)[v] : v \in DOMAIN Votes(r)}

\* The score the node itself votes in this run.
OwnScore == CalculateFarmScore(MockReturns)

\* A peer that has not voted for r sends its farm_score, with a score no other
\* node votes.
DistinctVote ==
    \E r \in RequestIDs :
        \E sender \in ValidatorPeers \ DOMAIN Votes(r) :
            \E score \in Scores \ (VotedScores(r) \cup {OwnScore}) :
                FarmScoreFrom(r, sender, score)

NextDistinctVotes ==
    \/ Tick
    \/ StartPass
    \/ Examine
    \/ DeleteRequest
    \/ FetchStoreScore
    \/ FetchAddPending
    \/ DistinctVote
    \/ HandlerAddPending

SpecDistinctVotes == InitValidator /\ [][NextDistinctVotes]_vars

\* C11: when the three nodes vote three pairwise distinct scores for a
\* request, submitConsensusResult is never called for it, whatever the order
\* of the vote deliveries and the ticks of the decision loop: the request only
\* leaves pendingRequests by the timeout.
C11_DistinctScoresNeverSubmitted ==
    /\ DOMAIN decided = {}
    /\ ~Submitting

-----------------------------------------------------------------------------
(* SpecCluster: fully connected validator nodes, each a GossipEngine with the *)
(* callbacks of ValidatorP2PIntegration registered.  The origin's fetch loop  *)
(* ticks once; the messages it starts are delivered, handled and relayed.     *)
(* Every dial succeeds and every message sent is delivered.  No action of     *)
(* these specifications changes a peer table, so the copy of the peer table   *)
(* broadcastMessage takes first is taken in the step of its critical section. *)
(* A goroutine that sends dials at once: the connection is in the backlog of   *)
(* the peer's listener when the critical section of broadcastMessage ends,    *)
(* and a listener accepts its connections in the order they were made.        *)

\* Number of nodes of the cluster.
NumClusterNodes == 3

\* Number of goroutines (the body of the fetch loop, handleConnection) running
\* at the same time.
MaxHandlers == 1

ClusterNodes == {NodeNames[i] : i \in 1..NumClusterNodes}

\* Every node has every other node in its peer table.
MeshPeers(n) == ClusterNodes \ {n}

\* The request the origin's fetch loop starts.
ClusterRequest == "farm-data-100"

InitCluster ==
    /\ peers = [n \in ClusterNodes |-> MeshPeers(n)]
    /\ knownMessages = [n \in ClusterNodes |-> {}]
    /\ net = EmptyBag
    /\ tasks = EmptyBag
    /\ callbackLog = EmptyBag
    /\ sendLog = EmptyBag
    /\ apiLog = EmptyBag
    /\ apiCalls = 0
    /\ nodeScores = [n \in ClusterNodes |-> EmptyMap]
    /\ nodePending = [n \in ClusterNodes |-> EmptyMap]
    /\ backlog = [n \in ClusterNodes |-> <<>>]
    /\ sent = {}
    /\ handled = {}
    /\ now = 1
    /\ DiscoveryIdle
    /\ QuorumInit
    /\ ValidatorIdle

\* broadcastMessage(msg) at node n, after the copy `targets` of the peer table
\* has been taken: test and set knownMessages[msgID]; when the id is new, one
\* goroutine per peer dials the peer and sends the message (the dial of a
\* stopped peer fails).
SendTo(n, msg, targets) ==
    IF AlreadyKnown(knownMessages[n], MsgID(msg))
    THEN UNCHANGED <<knownMessages, backlog, sent>>
    ELSE /\ knownMessages' = [knownMessages EXCEPT ![n] = @ \cup {MsgID(msg)}]
         /\ backlog' = [p \in DOMAIN backlog |->
                           IF p \in targets \ down THEN Append(backlog[p], Conn(n, p, msg))
                           ELSE backlog[p]]
         /\ sent' = sent \cup {<<n, p, msg.type, msg.sender, msg.requestID>> : p \in targets \ down}

\* broadcastMessage(msg) at node n where the peer table does not change.
BroadcastMessage(n, msg) == SendTo(n, msg, peers[n])

\* The farm_score message BroadcastFarmScore(requestID, farmScore) builds at n.
FarmScoreMessage(n, requestID, farmScore) ==
    Message("farm_score", n, requestID, <<>>, farmScore, now)

\* farmScore := v.farmCalculator.CalculateFarmScore(msg.FarmData) in
\* handleFarmDataMessage.
MutHandlerScore(msg) == msg.farmScore
HandlerScore(msg) == CalculateFarmScore(msg.farmData)

\* The goroutine t goes on at position pc, or ends (pc = "end").
Proceed(t, pc) ==
    tasks' = (tasks (-) SetToBag({t})) (+)
             (IF pc = "end" THEN EmptyBag
              ELSE SetToBag({Task(t.node, t.kind, pc, t.msg, {})}))

\* processFarmData, on its tick: the request id, the mock data,
\* BroadcastFarmData.
ClusterFetch ==
    /\ apiCalls = 0
    /\ BagCardinality(tasks) < MaxHandlers
    /\ apiCalls' = 1
    /\ LET msg == Message("farm_data", Origin, ClusterRequest, MockReturns, 0, now)
       IN  /\ BroadcastMessage(Origin, msg)
           /\ tasks' = tasks (+) SetToBag({Task(Origin, "processFarmData", "score", msg, {})})
    /\ UNCHANGED <<peers, net, callbackLog, sendLog, apiLog, nodeScores, nodePending, handled,
                   now, discoveryVars, quorumVars, validatorVars>>

\* BroadcastFarmScore, first part: broadcastMessage of the farm_score message.
\* Called by processFarmData with the score of the fetched data and by
\* handleFarmDataMessage with the score of the received data.
SendOwnScore ==
    \E t \in BagToSet(tasks) :
        /\ t.pc = "score"
        /\ BroadcastMessage(t.node, FarmScoreMessage(t.node, t.msg.requestID, HandlerScore(t.msg)))
        /\ Proceed(t, "store")
        /\ UNCHANGED <<peers, net, callbackLog, sendLog, apiLog, apiCalls, nodeScores, nodePending,
                       handled, now, discoveryVars, quorumVars, validatorVars>>

\* BroadcastFarmScore, second part: scoreResults[requestID][nodeID] = farmScore
StoreOwnScore ==
    \E t \in BagToSet(tasks) :
        /\ t.pc = "store"
        /\ nodeScores' = [nodeScores EXCEPT ![t.node] =
                             StoreScore(@, t.msg.requestID, t.node, HandlerScore(t.msg))]
        /\ Proceed(t, "pend")
        /\ UNCHANGED <<peers, knownMessages, net, backlog, callbackLog, sendLog, apiLog, apiCalls,
                       nodePending, sent, handled, now, discoveryVars, quorumVars,
                       validatorVars>>

\* The last step of processFarmData (the time is stamped) and of the two
\* message handlers (the request is added if absent); a connection's goroutine
\* goes on to relay the message.
AddToPending ==
    \E t \in BagToSet(tasks) :
        /\ t.pc = "pend"
        /\ nodePending' = [nodePending EXCEPT ![t.node] =
                              IF t.kind = "processFarmData"
                              THEN StampRequest(@, t.msg.requestID)
                              ELSE AddIfAbsent(@, t.msg.requestID)]
        /\ handled' = IF t.kind = "conn" /\ t.msg.type = "farm_data"
                      THEN handled \cup {<<t.node, t.msg.requestID>>}
                      ELSE handled
        /\ Proceed(t, IF t.kind = "conn" THEN "relay" ELSE "end")
        /\ UNCHANGED <<peers, knownMessages, net, backlog, callbackLog, sendLog, apiLog, apiCalls,
                       nodeScores, sent, now, discoveryVars, quorumVars, validatorVars>>

\* Where handleConnection goes after the switch of processMessage: into the
\* callback registered for the type (handleFarmDataMessage returns at once on
\* an empty series), or on to the relay.
AfterSwitch(msg) ==
    IF msg.type = "farm_data" /\ Len(msg.farmData) # 0 THEN "score"
    ELSE IF msg.type = "farm_score" THEN "pend"
    ELSE "relay"

\* handleConnection at node n: accept a connection, decode the message,
\* processMessage up to the callback (a farm_score vote is stored).
ClusterAccept(n) ==
    /\ backlog[n] # <<>>
    /\ BagCardinality(tasks) < MaxHandlers
    /\ LET c == Head(backlog[n])
       IN  /\ backlog' = [backlog EXCEPT ![n] = Tail(@)]
           /\ nodeScores' =
                 IF c.msg.type = "farm_score"
                 THEN [nodeScores EXCEPT ![n] =
                          StoreScore(@, c.msg.requestID, c.msg.sender, c.msg.farmScore)]
                 ELSE nodeScores
           /\ tasks' = tasks (+) SetToBag({Task(n, "conn", AfterSwitch(c.msg), c.msg, {})})
    /\ UNCHANGED <<peers, knownMessages, net, callbackLog, sendLog, apiLog, apiCalls,
                   nodePending, sent, handled, now, discoveryVars, quorumVars,
                   validatorVars>>

\* handleConnection, last step: broadcastMessage(msg) relays the message.
ClusterRelay ==
    \E t \in BagToSet(tasks) :
        /\ t.pc = "relay"
        /\ BroadcastMessage(t.node, t.msg)
        /\ Proceed(t, "end")
        /\ UNCHANGED <<peers, net, callbackLog, sendLog, apiLog, apiCalls, nodeScores,
                       nodePending, handled, now, discoveryVars, quorumVars, validatorVars>>

ClusterReceive == \E n \in ClusterNodes : ClusterAccept(n)

NextCluster ==
    \/ ClusterFetch
    \/ SendOwnScore
    \/ StoreOwnScore
    \/ AddToPending
    \/ ClusterReceive
    \/ ClusterRelay

\* Reliable delivery and fair scheduling: a step that can be taken is taken.
SpecCluster == InitCluster /\ [][NextCluster]_vars /\ WF_vars(NextCluster)

\* No connection is in flight and no goroutine is running.
ClusterQuiescent == (\A n \in DOMAIN backlog : backlog[n] = <<>>) /\ tasks = EmptyBag

\* CheckConsensus(r) at node n returns (TRUE, s), in whatever order it visits
\* the counts.
DecidedAt(n, r, s) ==
    \A order \in CountOrders(nodeScores[n], r) :
        CheckConsensus(nodeScores[n], r, order) = <<TRUE, s>>

\* C12: fully connected nodes that all compute the same score s for a request:
\* eventually, and from then on, CheckConsensus(request) = (true, s) at every
\* node.
C12_AllNodesDecide ==
    <>[](\A n \in ClusterNodes : DecidedAt(n, ClusterRequest, OwnScore))

\* C12 witness: all messages have been handled, every node holds the votes of
\* all nodes and CheckConsensus returns (true, s) at every node.
C12_Witness ==
    /\ ClusterQuiescent
    /\ \A n \in ClusterNodes :
          /\ ClusterRequest \in DOMAIN nodeScores[n]
          /\ DOMAIN nodeScores[n][ClusterRequest] = ClusterNodes
          /\ DecidedAt(n, ClusterRequest, OwnScore)

-----------------------------------------------------------------------------
(* SpecDiscovery: GossipEngine nodes that start with empty peer tables and    *)
(* run discoverPeers: every 10 seconds a peer_discovery message is broadcast  *)
(* and cleanupOldPeers runs.  The application may call AddPeer and Stop.      *)
(* Time is counted in units of 5 seconds; messages are handled within the     *)
(* time unit they are sent in.  periodicBroadcast (the heartbeat, every 30    *)
(* seconds from the same start) sends to the same peers at every third        *)
(* discovery tick and changes no peer table; it is left out.                  *)

\* Number of nodes.
NumDiscoveryNodes == 2

\* Number of AddPeer calls made in a run.
MaxAddPeer == 1

\* Number of nodes that stop in a run.
MaxStops == 1

\* Time units a run lasts.
MaxTime == 30

\* The period of the discovery ticker, 10 seconds.
DiscoveryInterval == 2

\* 2*time.Minute, the age after which cleanupOldPeers removes a peer.
StaleHorizon == 24

\* Ages of LastSeen are counted up to StaleCap; all greater ages behave alike.
StaleCap == StaleHorizon + DiscoveryInterval + 1

DiscoveryNodes == {NodeNames[i] : i \in 1..NumDiscoveryNodes}

\* The nodes may have been started up to one discovery interval apart.
InitDiscovery ==
    /\ peers = [n \in DiscoveryNodes |-> {}]
    /\ lastSeen = [n \in DiscoveryNodes |-> EmptyMap]
    /\ knownMessages = [n \in DiscoveryNodes |-> {}]
    /\ backlog = [n \in DiscoveryNodes |-> <<>>]
    /\ beaconTimer \in [DiscoveryNodes -> 1..DiscoveryInterval]
    /\ down = {}
    /\ evicted = {}
    /\ added = 0
    /\ now = 0
    /\ net = EmptyBag
    /\ tasks = EmptyBag
    /\ callbackLog = EmptyBag
    /\ sendLog = EmptyBag
    /\ apiLog = EmptyBag
    /\ apiCalls = 0
    /\ nodeScores = EmptyMap
    /\ nodePending = EmptyMap
    /\ sent = {}
    /\ handled = {}
    /\ QuorumInit
    /\ ValidatorIdle

\* One time unit passes: every LastSeen grows older, the tickers advance.
DiscoveryTick ==
    /\ now < MaxTime
    /\ tasks = EmptyBag
    /\ \A n \in DiscoveryNodes : backlog[n] = <<>>
    /\ \A n \in DiscoveryNodes \ down : beaconTimer[n] > 0
    /\ now' = now + 1
    /\ lastSeen' = [n \in DiscoveryNodes |->
                      [p \in DOMAIN lastSeen[n] |-> Min(lastSeen[n][p] + 1, StaleCap)]]
    /\ beaconTimer' = [n \in DiscoveryNodes |->
                         IF n \in down THEN beaconTimer[n] ELSE beaconTimer[n] - 1]
    /\ UNCHANGED <<peers, knownMessages, net, tasks, callbackLog, sendLog, apiLog, apiCalls,
                   nodeScores, nodePending, backlog, sent, handled, down, evicted, added,
                   quorumVars, validatorVars>>

\* GossipEngine.AddPeer(id, address) at node n: the entry is written with
\* LastSeen = time.Now().
AddPeer ==
    \E n \in DiscoveryNodes \ down : \E p \in DiscoveryNodes \ {n} :
        /\ added < MaxAddPeer
        /\ added' = added + 1
        /\ peers' = [peers EXCEPT ![n] = @ \cup {p}]
        /\ lastSeen' = [lastSeen EXCEPT ![n] = MapSet(@, p, 0)]
        /\ UNCHANGED <<knownMessages, net, tasks, callbackLog, sendLog, apiLog, apiCalls,
                       clusterVars, beaconTimer, down, evicted, quorumVars, validatorVars>>

\* GossipEngine.Stop at node n: the tickers stop and the listener is closed.
Stop ==
    \E n \in DiscoveryNodes \ down :
        /\ Cardinality(down) < MaxStops
        /\ down' = down \cup {n}
        /\ backlog' = [backlog EXCEPT ![n] = <<>>]
        /\ beaconTimer' = [beaconTimer EXCEPT ![n] = DiscoveryInterval]
        /\ UNCHANGED <<peers, knownMessages, net, tasks, callbackLog, sendLog, apiLog,
                       apiCalls, nodeScores, nodePending, sent, handled, now, lastSeen,
                       evicted, added, quorumVars, validatorVars>>

\* discoverPeers, on a tick: the peer_discovery message is built and
\* broadcastMessage copies the peer table.
Beacon ==
    \E n \in DiscoveryNodes \ down :
        /\ beaconTimer[n] = 0
        /\ BagCardinality(tasks) < MaxHandlers
        /\ beaconTimer' = [beaconTimer EXCEPT ![n] = DiscoveryInterval]
        /\ tasks' = tasks (+) SetToBag({Task(n, "discoverPeers", "check",
                        Message("peer_discovery", n, "", <<n>>, 0, now), peers[n])})
        /\ UNCHANGED <<peers, knownMessages, net, callbackLog, sendLog, apiLog, apiCalls,
                       clusterVars, lastSeen, down, evicted, added, quorumVars, validatorVars>>

\* broadcastMessage, critical section, in discoverPeers (cleanupOldPeers
\* follows) and in handleConnection (the goroutine ends).
DiscoverySend ==
    \E t \in BagToSet(tasks) :
        /\ t.pc = "check"
        /\ SendTo(t.node, t.msg, t.snap)
        /\ Proceed(t, IF t.kind = "discoverPeers" THEN "cleanup" ELSE "end")
        /\ UNCHANGED <<peers, net, callbackLog, sendLog, apiLog, apiCalls, nodeScores,
                       nodePending, handled, now, discoveryVars, quorumVars, validatorVars>>

\* The test peer.LastSeen.Before(time.Now().Add(-2 * time.Minute))
MutStale(age) == age > StaleHorizon + DiscoveryInterval
Stale(age) == age > StaleHorizon

\* cleanupOldPeers: every stale peer is deleted.
CleanupOldPeers ==
    \E t \in BagToSet(tasks) :
        /\ t.pc = "cleanup"
        /\ LET old == {p \in peers[t.node] : Stale(lastSeen[t.node][p])}
           IN  /\ peers' = [peers EXCEPT ![t.node] = @ \ old]
               /\ lastSeen' = [lastSeen EXCEPT ![t.node] =
                                  [p \in DOMAIN @ \ old |-> @[p]]]
               /\ evicted' = evicted \cup {<<t.node, p>> : p \in old}
        /\ Proceed(t, "end")
        /\ UNCHANGED <<knownMessages, net, callbackLog, sendLog, apiLog, apiCalls,
                       clusterVars, beaconTimer, down, added, quorumVars, validatorVars>>

\* handleConnection at node n: accept, decode, and set the LastSeen of
\* msg.Sender to time.Now() when msg.Sender is in the peer table.
DiscoveryAccept ==
    \E n \in DiscoveryNodes \ down :
        /\ backlog[n] # <<>>
        /\ BagCardinality(tasks) < MaxHandlers
        /\ LET c == Head(backlog[n])
           IN  /\ backlog' = [backlog EXCEPT ![n] = Tail(@)]
               /\ lastSeen' = IF c.msg.sender \in peers[n]
                              THEN [lastSeen EXCEPT ![n] = MapSet(@, c.msg.sender, 0)]
                              ELSE lastSeen
               /\ tasks' = tasks (+) SetToBag({Task(n, "conn", "process", c.msg, {})})
        /\ UNCHANGED <<peers, knownMessages, net, callbackLog, sendLog, apiLog, apiCalls,
                       nodeScores, nodePending, sent, handled, now, beaconTimer, down,
                       evicted, added, quorumVars, validatorVars>>

\* processMessage, case "peer_discovery": the sender is added as a peer, with
\* LastSeen = time.Now(), if it is not in the peer table.  No callback is
\* registered for the type.
ProcessDiscovery ==
    \E t \in BagToSet(tasks) :
        /\ t.pc = "process"
        /\ IF t.msg.type = "peer_discovery" /\ t.msg.sender \notin peers[t.node]
           THEN /\ peers' = [peers EXCEPT ![t.node] = @ \cup {t.msg.sender}]
                /\ lastSeen' = [lastSeen EXCEPT ![t.node] = MapSet(@, t.msg.sender, 0)]
           ELSE UNCHANGED <<peers, lastSeen>>
        /\ Proceed(t, "snap")
        /\ UNCHANGED <<knownMessages, net, callbackLog, sendLog, apiLog, apiCalls,
                       clusterVars, beaconTimer, down, evicted, added, quorumVars,
                       validatorVars>>

\* handleConnection goes on to relay: broadcastMessage copies the peer table.
RelaySnapshot ==
    \E t \in BagToSet(tasks) :
        /\ t.pc = "snap"
        /\ tasks' = (tasks (-) SetToBag({t})) (+)
                    SetToBag({Task(t.node, t.kind, "check", t.msg, peers[t.node])})
        /\ UNCHANGED <<peers, knownMessages, net, callbackLog, sendLog, apiLog, apiCalls,
                       clusterVars, discoveryVars, quorumVars, validatorVars>>

NextDiscovery ==
    \/ DiscoveryTick
    \/ AddPeer
    \/ Stop
    \/ Beacon
    \/ DiscoverySend
    \/ CleanupOldPeers
    \/ DiscoveryAccept
    \/ ProcessDiscovery
    \/ RelaySnapshot

SpecDiscovery == InitDiscovery /\ [][NextDiscovery]_vars

\* C13: nodes that start with empty peer tables and run their discovery
\* beacons (no AddPeer is called, no node stops) each have the other in their
\* peer table after three beacon intervals.
C13_BeaconsDiscoverPeers ==
    (added = 0 /\ down = {} /\ now >= 3 * DiscoveryInterval) =>
        \A n \in DiscoveryNodes : \A p \in DiscoveryNodes \ {n} : p \in peers[n]

\* A cleanup pass of node n is due or running.
CleanupDue(n) ==
    beaconTimer[n] = 0 \/ \E t \in BagToSet(tasks) : t.node = n /\ t.kind = "discoverPeers"

\* C14: while the engine of n runs, a peer entry is in n's table no longer
\* than 120 s plus one discovery interval after its LastSeen (an entry of that
\* age is removed by the cleanup pass of that instant), and a cleanup pass
\* removes an entry only when its LastSeen is more than 120 s old.
C14_StalePeerEvicted ==
    /\ [](\A n \in DiscoveryNodes \ down : \A p \in peers[n] :
             /\ lastSeen[n][p] <= StaleHorizon + DiscoveryInterval
             /\ lastSeen[n][p] = StaleHorizon + DiscoveryInterval => CleanupDue(n))
    /\ [][\A n \in DiscoveryNodes : \A p \in peers[n] :
             p \notin peers'[n] => lastSeen[n][p] > StaleHorizon]_vars

\* C14 witness: a cleanup pass has removed a peer, and a peer that has been
\* in the table for longer than the horizon and was refreshed is still there.
C14_Witness ==
    \E n \in DiscoveryNodes \ down :
        /\ \E p \in DiscoveryNodes : <<n, p>> \in evicted
        /\ \E q \in peers[n] : now > StaleHorizon + DiscoveryInterval

\* C22: a node's peer table never holds an entry for the node's own id,
\* whatever beacons, relays and deliveries have taken place.
C22_NoSelfInPeerTable ==
    \A n \in DiscoveryNodes : n \notin peers[n]

-----------------------------------------------------------------------------
(* SpecTolerance: the prototype Validator of test_farm_score.go.  One         *)
(* validator records its own score and the scores of its peers for one farm   *)
(* and calls its CheckConsensus, which groups scores within 1% of a group's   *)
(* first member.  Scores are whole numbers here (exact as float64), so the    *)
(* float64 tests of the code are exact; the average returned is kept as the   *)
(* pair <<sum, size>>.                                                        *)

\* Number of peers whose scores the validator receives.
NumTolPeers == 2

TolFarm == "farm1"
TolSelf == NodeNames[1]
TolPeers == {NodeNames[i + 1] : i \in 1..NumTolPeers}

\* The scores validators report in the model.
TolScores == {-10, 100, 101, 102}

\* The ids consensusGroups may use: nextGroupID counts from 0.
GroupIDs == 0..NumTolPeers

Abs(x) == IF x < 0 THEN -x ELSE x

\* CheckConsensus, first part: the scores map, the validator's own score and
\* the peers' scores.
AllScores(own, peer, farmID) ==
    LET mine == IF farmID \in DOMAIN own THEN [v \in {TolSelf} |-> own[farmID]] ELSE EmptyMap
        theirs == IF farmID \in DOMAIN peer THEN peer[farmID] ELSE EmptyMap
    IN  [v \in DOMAIN mine \cup DOMAIN theirs |->
            IF v \in DOMAIN theirs THEN theirs[v] ELSE mine[v]]

\* diff := math.Abs(score - referenceScore) / referenceScore; diff <= 0.01.
\* With a negative reference diff is negative or -0, with reference 0 it is
\* +Inf or NaN.
WithinTolerance(score, referenceScore) ==
    IF referenceScore > 0 THEN Abs(score - referenceScore) * 100 <= referenceScore
    ELSE referenceScore < 0

\* The loop "for groupID, members := range consensusGroups" visiting the group
\* ids in the order `visit`: the first group whose reference the score is
\* within 1% of, or -1.
RECURSIVE FindGroup(_, _, _, _)
FindGroup(groups, scores, score, visit) ==
    IF visit = <<>> THEN -1
    ELSE IF /\ Head(visit) \in DOMAIN groups
            /\ WithinTolerance(score, scores[groups[Head(visit)][1]])
         THEN Head(visit)
         ELSE FindGroup(groups, scores, score, Tail(visit))

\* The loop "for validatorID, score := range scores" visiting the validators
\* in `order`: consensusGroups, a map from group id to the list of members.
RECURSIVE GroupScores(_, _, _, _)
GroupScores(scores, order, visit, groups) ==
    IF order = <<>> THEN groups
    ELSE LET validatorID == Head(order)
             groupID == FindGroup(groups, scores, scores[validatorID], visit)
             nextGroupID == Cardinality(DOMAIN groups)
         IN  IF groupID # -1
             THEN GroupScores(scores, Tail(order), visit,
                              [groups EXCEPT ![groupID] = Append(@, validatorID)])
             ELSE GroupScores(scores, Tail(order), visit,
                              MapSet(groups, nextGroupID, <<validatorID>>))

\* The loop that finds the largest group, visiting the group ids in `visit`:
\* <<largestGroupID, largestGroupSize>>.
RECURSIVE LargestGroup(_, _, _, _)
LargestGroup(groups, visit, largestGroupID, largestGroupSize) ==
    IF visit = <<>> THEN <<largestGroupID, largestGroupSize>>
    ELSE IF Head(visit) \in DOMAIN groups /\ Len(groups[Head(visit)]) > largestGroupSize
         THEN LargestGroup(groups, Tail(visit), Head(visit), Len(groups[Head(visit)]))
         ELSE LargestGroup(groups, Tail(visit), largestGroupID, largestGroupSize)

RECURSIVE SumScores(_, _)
SumScores(scores, members) ==
    IF members = <<>> THEN 0
    ELSE scores[Head(members)] + SumScores(scores, Tail(members))

\* int(math.Ceil(float64(totalValidators) * 2 / 3))
MinRequiredSize(totalValidators) == (2 * totalValidators + 2) \div 3

NoConsensus == <<FALSE, <<0, 1>>>>

\* Validator.CheckConsensus on the scores map; order, visit and visit2 are the
\* orders in which its three range loops visit their maps.
ValidatorCheckConsensus(scores, order, visit, visit2) ==
    LET totalValidators == Cardinality(DOMAIN scores)
    IN  IF totalValidators < 2 THEN NoConsensus
        ELSE LET groups == GroupScores(scores, order, visit, EmptyMap)
                 largest == LargestGroup(groups, visit2, -1, 0)
             IN  IF largest[2] >= MinRequiredSize(totalValidators)
                 THEN <<TRUE, <<SumScores(scores, groups[largest[1]]), largest[2]>>>>
                 ELSE NoConsensus

\* The scores map of the validator in the current state.
CurrentScores == AllScores(farmScores, peerScores, TolFarm)

\* CalculateAndBroadcastFarmScore: the validator stores its own score.
StoreOwnFarmScore ==
    \E score \in TolScores :
        /\ farmScores' = MapSet(farmScores, TolFarm, score)
        /\ tolCheck' = [called |-> FALSE]
        /\ UNCHANGED <<peerScores, scoreResults, lastCheck, engineVars, calcLog,
                       gossipVars, validatorVars>>

\* ReceiveFarmScore(peerID, farmID, score)
ReceivePeerScore ==
    \E peerID \in TolPeers, score \in TolScores :
        /\ peerScores' = MapSet(peerScores, TolFarm,
                                MapSet(IF TolFarm \in DOMAIN peerScores
                                       THEN peerScores[TolFarm] ELSE EmptyMap,
                                       peerID, score))
        /\ tolCheck' = [called |-> FALSE]
        /\ UNCHANGED <<farmScores, scoreResults, lastCheck, engineVars, calcLog,
                       gossipVars, validatorVars>>

\* A call of Validator.CheckConsensus; the maps are visited in any order.
CallValidatorCheckConsensus ==
    \E order \in Orders(DOMAIN CurrentScores) :
        \E visit \in Orders(GroupIDs), visit2 \in Orders(GroupIDs) :
            /\ tolCheck' = [called |-> TRUE, order |-> order,
                            ret |-> ValidatorCheckConsensus(CurrentScores, order, visit, visit2)]
            /\ UNCHANGED <<farmScores, peerScores, scoreResults, lastCheck, engineVars,
                           calcLog, gossipVars, validatorVars>>

InitTolerance == QuorumInit /\ GossipIdle /\ ValidatorIdle

NextTolerance == StoreOwnFarmScore \/ ReceivePeerScore \/ CallValidatorCheckConsensus

SpecTolerance == InitTolerance /\ [][NextTolerance]_vars

\* Two scores are within 1% of each other relative to the class reference.
ClaimedWithin(score, ref) == Abs(score - ref) * 100 <= Abs(ref)

\* The classes of the tolerance quorum: each score, in the order visited, joins
\* the first class (in order of creation) whose reference it is within 1% of,
\* otherwise it opens a new class.  A sequence of sequences of validators.
RECURSIVE ClaimedClasses(_, _, _)
ClaimedClasses(scores, order, classes) ==
    IF order = <<>> THEN classes
    ELSE LET v == Head(order)
             fits == {i \in 1..Len(classes) : ClaimedWithin(scores[v], scores[classes[i][1]])}
         IN  IF fits = {}
             THEN ClaimedClasses(scores, Tail(order), Append(classes, <<v>>))
             ELSE LET first == CHOOSE i \in fits : \A j \in fits : i <= j
                  IN  ClaimedClasses(scores, Tail(order),
                                     [classes EXCEPT ![first] = Append(@, v)])

\* The result the tolerance quorum is said to give: the mean of the largest
\* class when it holds at least ceil(2|V|/3) of at least 2 scores.
ClaimedConsensus(scores, order) ==
    LET classes == ClaimedClasses(scores, order, <<>>)
        total == Cardinality(DOMAIN scores)
        big == {i \in 1..Len(classes) : Len(classes[i]) * 3 >= 2 * total}
    IN  IF total >= 2 /\ big # {}
        THEN LET g == CHOOSE i \in big : \A j \in big : Len(classes[i]) >= Len(classes[j])
             IN  <<TRUE, <<SumScores(scores, classes[g]), Len(classes[g])>>>>
        ELSE NoConsensus

\* C15: the prototype's CheckConsensus groups each score with the first class
\* whose reference it is within 1% of, otherwise opens a class, and returns
\* (true, mean of the largest class G) iff |V| >= 2 and |G| >= ceil(2|V|/3),
\* otherwise (false, 0).
C15_ToleranceQuorum ==
    tolCheck.called => tolCheck.ret = ClaimedConsensus(CurrentScores, tolCheck.order)

\* C16: the tolerance decision is a function of the votes only: for the same
\* validator-to-score map every order of visiting the scores and the classes
\* gives the same result (stated for positive scores).
C16_ToleranceOrderIndependent ==
    (tolCheck.called /\ \A v \in DOMAIN CurrentScores : CurrentScores[v] > 0) =>
        \A order \in Orders(DOMAIN CurrentScores) :
            \A visit \in Orders(GroupIDs), visit2 \in Orders(GroupIDs) :
                ValidatorCheckConsensus(CurrentScores, order, visit, visit2) = tolCheck.ret

\* C34: in a call of the prototype's CheckConsensus a score joins the class of
\* a reference score exactly when |score - ref| <= 0.01 * |ref|, for every
\* pair of scores the validator holds.
C34_JoinsIffWithinOnePercent ==
    tolCheck.called =>
        \A v, w \in DOMAIN CurrentScores :
            WithinTolerance(CurrentScores[v], CurrentScores[w])
                <=> ClaimedWithin(CurrentScores[v], CurrentScores[w])

-----------------------------------------------------------------------------
(* SpecCalculator: the invocations of CalculateFarmScore.  calcLog records    *)
(* every call: the node, the call site, the series passed and the result.     *)

\* Number of nodes that invoke the calculator.
NumCalcNodes == 2

CalcNodes == {NodeNames[i] : i \in 1..NumCalcNodes}

\* A calculator whose result depends on the calls the node made before.
MutCalculatorCall(n, returns) ==
    CalculateFarmScore(returns) + Cardinality({e \in calcLog : e.node = n})

\* v.farmCalculator.CalculateFarmScore(returns) at node n.  The receiver
\* FarmScoreCalculator is an empty struct and the function and its helpers
\* read nothing but the slice, in index order.
CalculatorCall(n, returns) == CalculateFarmScore(returns)

Invocation(n, site, returns) ==
    [node |-> n, site |-> site, returns |-> returns, score |-> CalculatorCall(n, returns)]

\* processFarmData: the score of the series the node fetched.
CalcFetched ==
    \E n \in CalcNodes :
        /\ calcLog' = calcLog \cup {Invocation(n, "processFarmData", MockReturns)}
        /\ UNCHANGED <<scoreResults, lastCheck, prototypeVars, engineVars,
                       gossipVars, validatorVars>>

\* handleFarmDataMessage: the score of a non-empty series a peer sent.
CalcReceived ==
    \E n \in CalcNodes, returns \in FarmDataInputs :
        /\ Len(returns) # 0
        /\ calcLog' = calcLog \cup {Invocation(n, "handleFarmDataMessage", returns)}
        /\ UNCHANGED <<scoreResults, lastCheck, prototypeVars, engineVars,
                       gossipVars, validatorVars>>

\* TestFarmScoreCalculator: the sample series and the empty series.
CalcTest ==
    \E n \in CalcNodes, returns \in {MockReturns, <<>>} :
        /\ calcLog' = calcLog \cup {Invocation(n, "TestFarmScoreCalculator", returns)}
        /\ UNCHANGED <<scoreResults, lastCheck, prototypeVars, engineVars,
                       gossipVars, validatorVars>>

InitCalculator == QuorumInit /\ GossipIdle /\ ValidatorIdle

NextCalculator == CalcFetched \/ CalcReceived \/ CalcTest

SpecCalculator == InitCalculator /\ [][NextCalculator]_vars

-----------------------------------------------------------------------------
(* SpecEngine: consensus.Engine.  Participants submit results for one request *)
(* with SubmitResult, in any number and order, and CheckConsensus is called.  *)

\* Number of participants that submit results.
NumParticipants == 3

\* Bound on the number of SubmitResult calls.
MaxSubmits == 4

Participants == {NodeNames[i] : i \in 1..NumParticipants}

\* The results submitted in the model, as string(result).
EngineResults == {"r1", "r2"}

EngineRequest == "1"

\* The value of a nil []byte.
Nil == "nil"

MapGet(m, k, default) == IF k \in DOMAIN m THEN m[k] ELSE default

RECURSIVE SumCounts(_)
SumCounts(counts) ==
    IF DOMAIN counts = {} THEN 0
    ELSE LET k == CHOOSE x \in DOMAIN counts : TRUE
         IN  counts[k] + SumCounts([x \in DOMAIN counts \ {k} |-> counts[x]])

\* Engine.SubmitResult(requestID, participantID, result)
SubmitResult ==
    \E participantID \in Participants, result \in EngineResults :
        /\ SumCounts(MapGet(resultCounts, EngineRequest, EmptyMap)) < MaxSubmits
        /\ consensusResults' =
               MapSet(consensusResults, EngineRequest,
                      MapSet(MapGet(consensusResults, EngineRequest, EmptyMap),
                             participantID, result))
        /\ resultCounts' =
               MapSet(resultCounts, EngineRequest,
                      MapSet(MapGet(resultCounts, EngineRequest, EmptyMap), result,
                             MapGet(MapGet(resultCounts, EngineRequest, EmptyMap), result, 0) + 1))
        /\ engineCheck' = [called |-> FALSE]
        /\ UNCHANGED <<scoreResults, lastCheck, prototypeVars, calcLog, hostVars,
                       gossipVars, validatorVars>>

\* The loop "for resultKey, count := range e.resultCounts[requestID]" visiting
\* the keys in `order`: <<maxCount, consensusResult>>.  consensusResult is
\* assigned only when some participant holds the key.
RECURSIVE MostVotes(_, _, _, _, _)
MostVotes(counts, results, order, maxCount, consensusResult) ==
    IF order = <<>> THEN <<maxCount, consensusResult>>
    ELSE LET resultKey == Head(order)
         IN  IF counts[resultKey] > maxCount
             THEN MostVotes(counts, results, Tail(order), counts[resultKey],
                            IF \E p \in DOMAIN results : results[p] = resultKey
                            THEN resultKey ELSE consensusResult)
             ELSE MostVotes(counts, results, Tail(order), maxCount, consensusResult)

\* Engine.CheckConsensus(requestID), the range over resultCounts visiting the
\* keys in `order`.
EngineCheckConsensus(requestID, order) ==
    IF requestID \notin DOMAIN resultCounts THEN <<FALSE, Nil>>
    ELSE LET totalParticipants == Cardinality(DOMAIN consensusResults[requestID])
             most == MostVotes(resultCounts[requestID], consensusResults[requestID],
                               order, 0, Nil)
         IN  IF totalParticipants = 0 THEN <<FALSE, Nil>>
             ELSE IF most[1] * 3 >= totalParticipants * 2 THEN <<TRUE, most[2]>>
             ELSE <<FALSE, Nil>>

\* A call of Engine.CheckConsensus for the request.
CallEngineCheckConsensus ==
    \E order \in Orders(DOMAIN MapGet(resultCounts, EngineRequest, EmptyMap)) :
        /\ engineCheck' = [called |-> TRUE, ret |-> EngineCheckConsensus(EngineRequest, order)]
        /\ UNCHANGED <<consensusResults, resultCounts, scoreResults, lastCheck,
                       prototypeVars, calcLog, hostVars, gossipVars, validatorVars>>

InitEngine == QuorumInit /\ GossipIdle /\ ValidatorIdle

NextEngine == SubmitResult \/ CallEngineCheckConsensus

SpecEngine == InitEngine /\ [][NextEngine]_vars

\* The participants that currently hold `result` for the request.
Holders(result) ==
    {p \in DOMAIN MapGet(consensusResults, EngineRequest, EmptyMap) :
        consensusResults[EngineRequest][p] = result}

\* C18: Engine.CheckConsensus returns true only if at least 2/3 of the
\* participants that have submitted a result for the request currently hold
\* the result returned, after any sequence of SubmitResult calls.
C18_EngineTwoThirdsHold ==
    (engineCheck.called /\ engineCheck.ret[1]) =>
        Cardinality(Holders(engineCheck.ret[2])) * 3
            >= Cardinality(DOMAIN consensusResults[EngineRequest]) * 2

\* C35: for every request and result value, resultCounts holds the number of
\* participants whose stored result for the request is that value.
C35_CountsMatchStoredResults ==
    \A requestID \in DOMAIN resultCounts :
        \A result \in EngineResults :
            MapGet(resultCounts[requestID], result, 0) =
                Cardinality({p \in DOMAIN consensusResults[requestID] :
                                consensusResults[requestID][p] = result})

-----------------------------------------------------------------------------
(* SpecSameSecond: validator nodes whose fetch loops tick once each, at any   *)
(* second of the clock, while the messages they start are delivered, handled  *)
(* and relayed.  Here `now` is the Unix second time.Now().Unix() returns; a   *)
(* message sent in one second may be handled in the next.                     *)

\* Number of nodes.
NumSecondNodes == 2

\* The last second of the clock.
MaxClock == 2

SecondNodes == {NodeNames[i] : i \in 1..NumSecondNodes}

\* requestID := fmt.Sprintf("farm-data-%d", time.Now().Unix())
RequestAt(second) == "farm-data-" \o ToString(99 + second)

InitSameSecond ==
    /\ peers = [n \in SecondNodes |-> SecondNodes \ {n}]
    /\ knownMessages = [n \in SecondNodes |-> {}]
    /\ net = EmptyBag
    /\ tasks = EmptyBag
    /\ callbackLog = EmptyBag
    /\ sendLog = EmptyBag
    /\ apiLog = EmptyBag
    /\ apiCalls = 0
    /\ nodeScores = [n \in SecondNodes |-> EmptyMap]
    /\ nodePending = [n \in SecondNodes |-> EmptyMap]
    /\ backlog = [n \in SecondNodes |-> <<>>]
    /\ sent = {}
    /\ handled = {}
    /\ now = 1
    /\ DiscoveryIdle
    /\ QuorumInit
    /\ ValidatorIdle

\* The clock reaches the next second.
ClockTick ==
    /\ now < MaxClock
    /\ now' = now + 1
    /\ UNCHANGED <<peers, knownMessages, net, tasks, callbackLog, sendLog, apiLog, apiCalls,
                   nodeScores, nodePending, backlog, sent, handled, discoveryVars,
                   quorumVars, validatorVars>>

\* Node n has broadcast the farm_data message of its fetch.
Fetched(n) ==
    \E second \in 1..MaxClock :
        MsgID(Message("farm_data", n, "", <<>>, 0, second)) \in knownMessages[n]

\* processFarmData at node n, on the tick of its fetch loop: the request id of
\* the current second, the mock data, BroadcastFarmData.
NodeFetch ==
    \E n \in SecondNodes :
        /\ ~Fetched(n)
        /\ BagCardinality(tasks) < MaxHandlers
        /\ LET msg == Message("farm_data", n, RequestAt(now), MockReturns, 0, now)
           IN  /\ BroadcastMessage(n, msg)
               /\ tasks' = tasks (+) SetToBag({Task(n, "processFarmData", "score", msg, {})})
        /\ UNCHANGED <<peers, net, callbackLog, sendLog, apiLog, apiCalls, nodeScores,
                       nodePending, handled, now, discoveryVars, quorumVars, validatorVars>>

SecondReceive == \E n \in SecondNodes : ClusterAccept(n)

NextSameSecond ==
    \/ ClockTick
    \/ NodeFetch
    \/ SendOwnScore
    \/ StoreOwnScore
    \/ AddToPending
    \/ SecondReceive
    \/ ClusterRelay

SpecSameSecond == InitSameSecond /\ [][NextSameSecond]_vars

\* C20: once handleFarmDataMessage has handled an inbound farm_data message
\* with a non-empty series for request R at node n, n holds its own vote for R
\* and has sent its farm_score message for R to every peer in its table,
\* whatever else n has broadcast in the same second.
C20_FarmDataAnswered ==
    \A h \in handled :
        LET n == h[1]
            r == h[2]
        IN  /\ r \in DOMAIN nodeScores[n]
            /\ n \in DOMAIN nodeScores[n][r]
            /\ \A p \in peers[n] : <<n, p, "farm_score", n, r>> \in sent

-----------------------------------------------------------------------------
(* SpecRevote: fully connected nodes; the origin's application calls          *)
(* BroadcastFarmScore twice for the same request, with a first and then a     *)
(* second score, and the messages are delivered, stored and relayed.          *)

\* The scores the origin votes, in the order of its calls.
RevoteScores == <<CalculateFarmScore(<<24>>), MockScore>>

\* BroadcastFarmScore(requestID, farmScore) at the origin, first part: the
\* message is stamped with the current second and handed to broadcastMessage.
CallBroadcastFarmScore ==
    /\ apiCalls < Len(RevoteScores)
    /\ BagCardinality(tasks) < MaxHandlers
    /\ apiCalls' = apiCalls + 1
    /\ LET msg == FarmScoreMessage(Origin, ClusterRequest, RevoteScores[apiCalls + 1])
       IN  /\ BroadcastMessage(Origin, msg)
           /\ tasks' = tasks (+) SetToBag({Task(Origin, "BroadcastFarmScore", "own", msg, {})})
    /\ UNCHANGED <<peers, net, callbackLog, sendLog, apiLog, nodeScores, nodePending, handled,
                   now, discoveryVars, quorumVars, validatorVars>>

\* BroadcastFarmScore, second part: scoreResults[requestID][nodeID] = farmScore
StoreVote ==
    \E t \in BagToSet(tasks) :
        /\ t.pc = "own"
        /\ nodeScores' = [nodeScores EXCEPT ![t.node] =
                             StoreScore(@, t.msg.requestID, t.node, t.msg.farmScore)]
        /\ Proceed(t, "end")
        /\ UNCHANGED <<peers, knownMessages, net, backlog, callbackLog, sendLog, apiLog, apiCalls,
                       nodePending, sent, handled, now, discoveryVars, quorumVars,
                       validatorVars>>

\* The sequence q without its i-th element.
RemoveAt(q, i) == SubSeq(q, 1, i - 1) \o SubSeq(q, i + 1, Len(q))

\* handleConnection at node n.  Every send dials from a goroutine of its own
\* and every accepted connection is handled by a goroutine of its own, so the
\* connections made to a listener are handled in any order.
AcceptInAnyOrder ==
    \E n \in ClusterNodes : \E i \in 1..Len(backlog[n]) :
        /\ BagCardinality(tasks) < MaxHandlers
        /\ LET c == backlog[n][i]
           IN  /\ backlog' = [backlog EXCEPT ![n] = RemoveAt(@, i)]
               /\ nodeScores' =
                     IF c.msg.type = "farm_score"
                     THEN [nodeScores EXCEPT ![n] =
                              StoreScore(@, c.msg.requestID, c.msg.sender, c.msg.farmScore)]
                     ELSE nodeScores
               /\ tasks' = tasks (+) SetToBag({Task(n, "conn", AfterSwitch(c.msg), c.msg, {})})
        /\ UNCHANGED <<peers, knownMessages, net, callbackLog, sendLog, apiLog, apiCalls,
                       nodePending, sent, handled, now, discoveryVars, quorumVars,
                       validatorVars>>

NextRevote ==
    \/ CallBroadcastFarmScore
    \/ StoreVote
    \/ ClockTick
    \/ AddToPending
    \/ AcceptInAnyOrder
    \/ ClusterRelay

SpecRevote == InitCluster /\ [][NextRevote]_vars

\* The origin has sent its first vote in one second and its second vote in a
\* later second, and every copy of both messages has been delivered.
BothVotesDelivered ==
    /\ apiCalls = Len(RevoteScores)
    /\ ClusterQuiescent
    /\ \A p \in peers[Origin] :
          Cardinality({e \in sent : e[1] = Origin /\ e[2] = p /\ e[3] = "farm_score"
                                    /\ e[4] = Origin}) = 1
    /\ Cardinality({id \in knownMessages[Origin] : TRUE}) = Len(RevoteScores)

\* C21: votes are last-write-wins per peer within a request: after the origin
\* has sent a first and then a second score for the request and every copy of
\* both messages, direct and relayed, has been delivered, the vote recorded
\* for the origin at every other node is the second score.
C21_LastVoteWins ==
    BothVotesDelivered =>
        \A n \in ClusterNodes \ {Origin} :
            nodeScores[n][ClusterRequest][Origin] = RevoteScores[Len(RevoteScores)]

-----------------------------------------------------------------------------
(* SpecInbound: one GossipEngine and the frames its listener may receive:     *)
(* any message that decodes as JSON, of any type, from a sender in the peer   *)
(* table or not, with or without a farm_data payload.  No callback is         *)
(* registered.  An unrecovered panic in a goroutine ends the process.         *)

\* Number of inbound frames in a run.
MaxInbound == 2

InboundNode == NodeNames[1]

\* The senders named in inbound frames: the first is in the peer table.
InboundSenders == {NodeNames[2], NodeNames[3]}

\* The port a discovery beacon carries as FarmData[0].
BeaconPort == 9002

InboundTypes == {"peer_discovery", "farm_data", "farm_score", "heartbeat"}

InboundFrames ==
    {Message(type, sender, "farm-data-100", farmData, 0, 1) :
        type \in InboundTypes, sender \in InboundSenders, farmData \in {<<>>, <<BeaconPort>>}}

InitInbound ==
    /\ peers = [n \in {InboundNode} |-> {NodeNames[2]}]
    /\ lastSeen = [n \in {InboundNode} |-> [p \in {NodeNames[2]} |-> 0]]
    /\ knownMessages = [n \in {InboundNode} |-> {}]
    /\ backlog = [n \in {InboundNode} \cup InboundSenders |-> <<>>]
    /\ beaconTimer = EmptyMap
    /\ down = {}
    /\ evicted = {}
    /\ added = 0
    /\ now = 1
    /\ net = EmptyBag
    /\ tasks = EmptyBag
    /\ callbackLog = EmptyBag
    /\ sendLog = EmptyBag
    /\ apiLog = EmptyBag
    /\ apiCalls = 0
    /\ nodeScores = EmptyMap
    /\ nodePending = EmptyMap
    /\ sent = {}
    /\ handled = {}
    /\ QuorumInit
    /\ ValidatorIdle

\* The accept loop hands a connection to a goroutine running handleConnection,
\* which decodes the frame.
InboundDeliver ==
    \E msg \in InboundFrames :
        /\ panicked = {}
        /\ apiCalls < MaxInbound
        /\ apiCalls' = apiCalls + 1
        /\ tasks' = tasks (+) SetToBag({Task(InboundNode, "conn", "seen", msg, {})})
        /\ UNCHANGED <<peers, knownMessages, net, callbackLog, sendLog, apiLog, clusterVars,
                       discoveryVars, quorumVars, validatorVars>>

\* handleConnection: under the mutex, LastSeen of msg.Sender is set when the
\* sender is in the peer table.
InboundLastSeen ==
    \E t \in BagToSet(tasks) :
        /\ panicked = {}
        /\ t.pc = "seen"
        /\ lastSeen' = IF t.msg.sender \in peers[t.node]
                       THEN [lastSeen EXCEPT ![t.node] = MapSet(@, t.msg.sender, 0)]
                       ELSE lastSeen
        /\ Proceed(t, "process")
        /\ UNCHANGED <<peers, knownMessages, net, callbackLog, sendLog, apiLog, apiCalls,
                       clusterVars, beaconTimer, down, evicted, added, quorumVars,
                       validatorVars>>

\* Whether processMessage indexes msg.FarmData[0] out of range.
IndexPanics(known, msg) ==
    msg.type = "peer_discovery" /\ msg.sender \notin known /\ Len(msg.farmData) = 0

\* processMessage.  Case "peer_discovery": g.mutex.Lock(); a sender not in the
\* table is added with the port msg.FarmData[0]; g.mutex.Unlock() (not
\* deferred).  Case "farm_score": the vote is stored.  Then the callback
\* registered for the type, if any.
InboundProcess ==
    \E t \in BagToSet(tasks) :
        /\ panicked = {}
        /\ t.pc = "process"
        /\ IF IndexPanics(peers[t.node], t.msg)
           THEN /\ panicked' = panicked \cup {t.node}
                /\ mutexHeld' = mutexHeld \cup {t.node}
                /\ UNCHANGED <<peers, lastSeen, scoreResults, tasks>>
           ELSE /\ IF t.msg.type = "peer_discovery" /\ t.msg.sender \notin peers[t.node]
                   THEN /\ peers' = [peers EXCEPT ![t.node] = @ \cup {t.msg.sender}]
                        /\ lastSeen' = [lastSeen EXCEPT ![t.node] = MapSet(@, t.msg.sender, 0)]
                   ELSE UNCHANGED <<peers, lastSeen>>
                /\ scoreResults' = IF t.msg.type = "farm_score"
                                   THEN StoreScore(scoreResults, t.msg.requestID,
                                                   t.msg.sender, t.msg.farmScore)
                                   ELSE scoreResults
                /\ Proceed(t, "relay")
                /\ UNCHANGED <<panicked, mutexHeld>>
        /\ UNCHANGED <<knownMessages, net, callbackLog, sendLog, apiLog, apiCalls, clusterVars,
                       beaconTimer, down, evicted, added, lastCheck, prototypeVars,
                       consensusResults, resultCounts, engineCheck, protocolVars, blockVars,
                       stopVars, auxVars, calcLog, validatorVars>>

\* handleConnection, last step: broadcastMessage(msg) copies the peer table and
\* relays the message.
InboundRelay ==
    \E t \in BagToSet(tasks) :
        /\ panicked = {}
        /\ t.pc = "relay"
        /\ BroadcastMessage(t.node, t.msg)
        /\ Proceed(t, "end")
        /\ UNCHANGED <<peers, net, callbackLog, sendLog, apiLog, apiCalls, nodeScores,
                       nodePending, handled, now, discoveryVars, quorumVars, validatorVars>>

NextInbound ==
    \/ InboundDeliver
    \/ InboundLastSeen
    \/ InboundProcess
    \/ InboundRelay

SpecInbound == InitInbound /\ [][NextInbound]_vars

\* C23: processing a JSON-decodable inbound message never crashes the node
\* and never leaves the engine mutex locked; in particular a peer_discovery
\* message from an unknown sender with an empty or missing farm_data payload
\* is handled without a panic.
C23_InboundNeverPanics ==
    panicked = {} /\ mutexHeld = {}

\* ======================================================================
\* SpecProtocol: the stream Protocol of one validator host and its status
\* broadcast (src/internal/ui/console.go 509-638, src/unnamed/part_007
\* 590-703).  The remote peers are connected at the host level throughout;
\* they open streams, write frames and reset streams as any libp2p peer may.
\* ======================================================================
NumRemotePeers == 1
MaxStreams == 2
MaxFrames == 1
MaxSends == 2
MaxBroadcasts == 1

RemotePeers == {NodeNames[i + 1] : i \in 1..NumRemotePeers}

\* Host.Peers: the peers the libp2p host holds a connection to.
HostPeers == RemotePeers

\* A frame is a status message, a line that is not JSON, or a message whose
\* type handleMessage does not know.
FrameKinds == {"status", "undecodable", "unknown"}

Stream(p, by) == [peer |-> p, by |-> by, state |-> "open"]

NewStreamID == Cardinality(DOMAIN streams) + 1

SendCall(p, pc, rw, caller) == [peer |-> p, pc |-> pc, rw |-> rw, caller |-> caller]

\* NewProtocol: an empty stream map; NewP2PValidator: an empty peer cache.
InitProtocol == GossipIdle /\ QuorumInit /\ ValidatorIdle

otherThanProtocol == <<inboundVars, blockVars, stopVars, auxVars, consensusResults, resultCounts,
                       engineCheck, scoreResults, lastCheck, prototypeVars, calcLog,
                       gossipVars, validatorVars>>

\* handleStream: a remote peer opens a stream; the entry of the peer in the
\* stream map is set to the new stream and a reader is started for it.
HandleStream ==
    \E p \in RemotePeers :
        /\ Cardinality(DOMAIN streams) < MaxStreams
        /\ streams' = MapSet(streams, NewStreamID, Stream(p, "accept"))
        /\ inbox' = MapSet(inbox, NewStreamID, <<>>)
        /\ streamMap' = MapSet(streamMap, p, NewStreamID)
        /\ readers' = readers \cup {NewStreamID}
        /\ UNCHANGED <<sendCalls, peerCache, consumed, written, bcast, broadcasts,
                       otherThanProtocol>>

\* The remote end of an open stream writes a frame.
RemoteFrame ==
    \E s \in DOMAIN streams, f \in FrameKinds :
        /\ streams[s].state = "open"
        /\ Len(inbox[s]) < MaxFrames
        /\ inbox' = [inbox EXCEPT ![s] = Append(@, f)]
        /\ UNCHANGED <<streamMap, streams, readers, sendCalls, peerCache, consumed, written,
                       bcast, broadcasts, otherThanProtocol>>

\* The remote end closes or resets a stream: reads and writes on it fail.
StreamFails ==
    \E s \in DOMAIN streams :
        /\ streams[s].state = "open"
        /\ streams' = [streams EXCEPT ![s].state = "broken"]
        /\ UNCHANGED <<streamMap, inbox, readers, sendCalls, peerCache, consumed, written,
                       bcast, broadcasts, otherThanProtocol>>

\* handleMessage: a status message updates the peer cache; a message of an
\* unknown type is an error.
HandlerFails(f) == f = "unknown"

\* A reader that gives up the stream when the handler reports an error.
MutReturnsAfterFrame(f) == HandlerFails(f)

\* readMessages after a line was read: TRUE when the loop returns.  A line
\* that does not decode takes `continue`; a handler error is only logged.
ReturnsAfterFrame(f) == FALSE

\* readMessages, ReadString succeeded: decode the line and call the handler.
ReadFrame ==
    \E s \in readers :
        /\ inbox[s] # <<>>
        /\ LET f == Head(inbox[s])
               p == streams[s].peer
           IN /\ inbox' = [inbox EXCEPT ![s] = Tail(@)]
              /\ consumed' = consumed \cup {f}
              /\ peerCache' = IF f = "status" THEN MapSet(peerCache, p, "status") ELSE peerCache
              /\ IF ReturnsAfterFrame(f)
                 THEN /\ readers' = readers \ {s}
                      /\ streamMap' = MapDelete(streamMap, p)
                 ELSE UNCHANGED <<readers, streamMap>>
        /\ UNCHANGED <<streams, sendCalls, written, bcast, broadcasts, otherThanProtocol>>

\* readMessages, ReadString failed: delete(p.peers, peerID) and return.
ReadError ==
    \E s \in readers :
        /\ streams[s].state = "broken"
        /\ readers' = readers \ {s}
        /\ streamMap' = MapDelete(streamMap, streams[s].peer)
        /\ UNCHANGED <<streams, inbox, sendCalls, peerCache, consumed, written, bcast,
                       broadcasts, otherThanProtocol>>

\* SendMessage(peerID, msg) is called by the application.
CallSendMessage ==
    \E p \in RemotePeers :
        /\ BagCardinality(sendCalls) < MaxSends
        /\ sendCalls' = sendCalls (+) SetToBag({SendCall(p, "lookup", 0, "api")})
        /\ UNCHANGED <<streamMap, streams, inbox, readers, peerCache, consumed, written,
                       bcast, broadcasts, otherThanProtocol>>

\* SendMessage, first critical section: rw, ok := p.peers[peerID] under RLock.
SendLookup ==
    \E c \in BagToSet(sendCalls) :
        /\ c.pc = "lookup"
        /\ sendCalls' = (sendCalls (-) SetToBag({c})) (+)
               SetToBag({IF c.peer \in DOMAIN streamMap
                         THEN SendCall(c.peer, "write", streamMap[c.peer], c.caller)
                         ELSE SendCall(c.peer, "open", 0, c.caller)})
        /\ UNCHANGED <<streamMap, streams, inbox, readers, peerCache, consumed, written,
                       bcast, broadcasts, otherThanProtocol>>

\* SendMessage, !ok branch: NewStream, then p.peers[peerID] = rw under Lock and
\* go readMessages.  When NewStream fails the call returns the error.
SendOpen ==
    \E c \in BagToSet(sendCalls) :
        /\ c.pc = "open"
        /\ \/ /\ Cardinality(DOMAIN streams) < MaxStreams
              /\ streams' = MapSet(streams, NewStreamID, Stream(c.peer, "dial"))
              /\ inbox' = MapSet(inbox, NewStreamID, <<>>)
              /\ streamMap' = MapSet(streamMap, c.peer, NewStreamID)
              /\ readers' = readers \cup {NewStreamID}
              /\ sendCalls' = (sendCalls (-) SetToBag({c})) (+)
                     SetToBag({SendCall(c.peer, "write", NewStreamID, c.caller)})
           \/ /\ sendCalls' = sendCalls (-) SetToBag({c})
              /\ UNCHANGED <<streams, inbox, streamMap, readers>>
        /\ UNCHANGED <<peerCache, consumed, written, bcast, broadcasts, otherThanProtocol>>

\* SendMessage: marshal, Write and Flush on rw; an error is returned to the caller.
SendWrite ==
    \E c \in BagToSet(sendCalls) :
        /\ c.pc = "write"
        /\ sendCalls' = sendCalls (-) SetToBag({c})
        /\ written' = IF streams[c.rw].state = "open"
                      THEN written \cup {<<c.peer, c.caller>>}
                      ELSE written
        /\ UNCHANGED <<streamMap, streams, inbox, readers, peerCache, consumed, bcast,
                       broadcasts, otherThanProtocol>>

BroadcastSending == \E c \in BagToSet(sendCalls) : c.caller = "Broadcast"

\* broadcastStatus, the one-minute tick: Protocol.Broadcast copies the keys of
\* the stream map (map iteration order) under RLock.
BroadcastStatus ==
    \E order \in Orders(DOMAIN streamMap) :
        /\ ~bcast.active
        /\ broadcasts < MaxBroadcasts
        /\ bcast' = [active |-> TRUE, queue |-> order]
        /\ UNCHANGED <<streamMap, streams, inbox, readers, sendCalls, peerCache, consumed,
                       written, broadcasts, otherThanProtocol>>

\* Protocol.Broadcast, the loop: SendMessage to the next peer of the copy.
BroadcastSend ==
    /\ bcast.active
    /\ bcast.queue # <<>>
    /\ ~BroadcastSending
    /\ sendCalls' = sendCalls (+) SetToBag({SendCall(Head(bcast.queue), "lookup", 0, "Broadcast")})
    /\ bcast' = [bcast EXCEPT !.queue = Tail(@)]
    /\ UNCHANGED <<streamMap, streams, inbox, readers, peerCache, consumed, written,
                   broadcasts, otherThanProtocol>>

\* Protocol.Broadcast returns nil after the last SendMessage.
BroadcastReturn ==
    /\ bcast.active
    /\ bcast.queue = <<>>
    /\ ~BroadcastSending
    /\ bcast' = [bcast EXCEPT !.active = FALSE]
    /\ broadcasts' = broadcasts + 1
    /\ UNCHANGED <<streamMap, streams, inbox, readers, sendCalls, peerCache, consumed,
                   written, otherThanProtocol>>

NextProtocol ==
    \/ HandleStream
    \/ RemoteFrame
    \/ StreamFails
    \/ ReadFrame
    \/ ReadError
    \/ CallSendMessage
    \/ SendLookup
    \/ SendOpen
    \/ SendWrite
    \/ BroadcastStatus
    \/ BroadcastSend
    \/ BroadcastReturn

SpecProtocol == InitProtocol /\ [][NextProtocol]_vars

\* C24: every status broadcast that has returned has written the status
\* message to every peer the host is connected to.
C24_BroadcastReachesHostPeers ==
    broadcasts > 0 =>
        \A p \in HostPeers : <<p, "Broadcast">> \in written

\* C28: when an entry leaves the stream map, the reader that returns in the
\* same step is the reader of the stream the entry referred to.
C28_ReadErrorRemovesOwnEntry ==
    [][\A p \in RemotePeers :
          (p \in DOMAIN streamMap /\ p \notin DOMAIN streamMap')
              => (streamMap[p] \in readers /\ streamMap[p] \notin readers')]_vars

DialStreams(p, strs) == {s \in DOMAIN strs : strs[s].peer = p /\ strs[s].by = "dial"}

\* C29: SendMessage opens a stream to a peer only in a state where the
\* stream map holds no stream that a SendMessage call opened to that peer, so
\* concurrent calls open one stream between them.
C29_ConcurrentSendsOpenOneStream ==
    [][\A p \in RemotePeers :
          DialStreams(p, streams') # DialStreams(p, streams)
              => ~(p \in DOMAIN streamMap /\ streamMap[p] \in DialStreams(p, streams))]_vars

\* C30: a reader returns only when the read of its stream fails, and an entry
\* leaves the stream map only when a reader of that peer returns; a frame that
\* does not decode and a frame whose handler fails leave the reader running.
C30_ReaderExitsOnlyOnReadError ==
    [][/\ \A s \in readers : s \notin readers' => streams[s].state = "broken"
       /\ \A p \in RemotePeers :
             (p \in DOMAIN streamMap /\ p \notin DOMAIN streamMap')
                 => \E s \in readers \ readers' : streams[s].peer = p]_vars

\* C30 witness: frames that do not decode, frames whose handler fails and
\* status frames have been read, and every reader ever started is running.
C30_Witness ==
    /\ consumed = FrameKinds
    /\ readers # {}
    /\ readers = DOMAIN streams
    /\ \A s \in readers : streams[s].peer \in DOMAIN peerCache

\* ======================================================================
\* SpecBlocks: the block loop of the validator and the block number the
\* P2P validator advertises (src/unnamed/part_007 223-280, 719-747).
\* ======================================================================
MaxBlock == 11

\* processBlock simulates a verification request, and UpdateBlockProcessed
\* broadcasts at once, when blockNum % 10 == 0.
BlockModulus == 10

InitBlocks == GossipIdle /\ QuorumInit /\ ValidatorIdle

otherThanBlocks == <<inboundVars, protocolVars, stopVars, auxVars, consensusResults, resultCounts,
                     engineCheck, scoreResults, lastCheck, prototypeVars, calcLog,
                     gossipVars, validatorVars>>

\* The chain the client is connected to grows; after a reorganisation, or
\* when the client is served by a node that lags, BlockNumber reports a
\* lower number than before.
ChainAdvance ==
    \E b \in (1..MaxBlock) \ {latestBlock} :
        /\ latestBlock' = b
        /\ UNCHANGED <<lastBlock, blockTarget, processed, blockLog, poll, verificationQueue,
                       lastBlockSeen, statusBlocks, otherThanBlocks>>

\* The condition of the loop over the new blocks.
MutContinues(blockNum, latest) == blockNum < latest

Continues(blockNum, latest) == blockNum <= latest

\* processBlocks, the tick: read the latest block number; the first reading
\* only sets lastBlock, later readings start the loop over the new blocks.
BlockTick ==
    /\ blockTarget = 0
    /\ IF lastBlock = 0
       THEN lastBlock' = latestBlock /\ UNCHANGED <<blockTarget, poll>>
       ELSE /\ blockTarget' = IF Continues(lastBlock + 1, latestBlock) THEN latestBlock ELSE 0
            /\ poll' = [L |-> latestBlock, from |-> lastBlock,
                        done |-> ~Continues(lastBlock + 1, latestBlock)]
            /\ UNCHANGED lastBlock
    /\ UNCHANGED <<latestBlock, processed, blockLog, verificationQueue, lastBlockSeen,
                   statusBlocks, otherThanBlocks>>

\* processBlocks, one iteration of the loop: processBlock(blockNum), which
\* returns nil, then v.lastBlock = blockNum and blockNum++.
ProcessBlock ==
    /\ blockTarget # 0
    /\ LET blockNum == lastBlock + 1
           ends == ~Continues(blockNum + 1, blockTarget)
       IN /\ processed' = processed \cup {blockNum}
          /\ blockLog' = Append(blockLog, blockNum)
          /\ verificationQueue' = IF blockNum % BlockModulus = 0
                                  THEN verificationQueue \cup {blockNum}
                                  ELSE verificationQueue
          /\ lastBlock' = blockNum
          /\ blockTarget' = IF ends THEN 0 ELSE blockTarget
          /\ poll' = [poll EXCEPT !.done = ends]
    /\ UNCHANGED <<latestBlock, lastBlockSeen, statusBlocks, otherThanBlocks>>

\* UpdateBlockProcessed(blockNum), an exported method: nothing in the
\* repository calls it, so here the embedding application calls it.
UpdateBlockProcessed ==
    \E blockNum \in 1..MaxBlock :
        /\ lastBlockSeen' = blockNum
        /\ statusBlocks' = IF blockNum % BlockModulus = 0
                           THEN statusBlocks \cup {blockNum}
                           ELSE statusBlocks
        /\ UNCHANGED <<latestBlock, lastBlock, blockTarget, processed, blockLog, poll,
                       verificationQueue, otherThanBlocks>>

NextBlocks == ChainAdvance \/ BlockTick \/ ProcessBlock \/ UpdateBlockProcessed

SpecBlocks == InitBlocks /\ [][NextBlocks]_vars

\* C25: when a pass of the block loop has ended, lastBlockSeen is the last
\* block processed and every processed block divisible by 10 has been
\* broadcast in a status message.
C25_ProcessedBlockIsAdvertised ==
    (blockTarget = 0 /\ processed # {}) =>
        /\ lastBlockSeen = lastBlock
        /\ \A b \in processed : b % BlockModulus = 0 => b \in statusBlocks

StrictlyIncreasing(log) == \A i, j \in DOMAIN log : i < j => log[i] < log[j]

\* C39 as stated: blocks are processed in strictly increasing order, each at
\* most once; lastBlock never decreases; and when the loop of a poll that
\* read latest block L has ended, every block after the lastBlock of the poll
\* up to L has been processed and lastBlock = L.
C39_PollLeavesLastBlockAtLatest ==
    /\ [](StrictlyIncreasing(blockLog))
    /\ [][lastBlock' >= lastBlock]_vars
    /\ [](poll.done => /\ \A b \in (poll.from + 1)..poll.L : b \in processed
                       /\ lastBlock = poll.L)

\* C39 amended: as above, but lastBlock = L only for a poll that read an L
\* not below lastBlock; a poll that read a lower L processes nothing and
\* leaves lastBlock as it was.
C39_PollLeavesLastBlockAtLeastLatest ==
    /\ [](StrictlyIncreasing(blockLog))
    /\ [][lastBlock' >= lastBlock]_vars
    /\ [](poll.done => /\ \A b \in (poll.from + 1)..poll.L : b \in processed
                       /\ lastBlock = IF poll.L >= poll.from THEN poll.L ELSE poll.from)
    /\ [][(poll'.done /\ poll'.L < poll'.from) => blockLog' = blockLog]_vars

\* C39 witness: one poll processed several blocks, among them one that
\* queues a verification request, and a later poll read a lower number.
C39_Witness ==
    /\ poll.done
    /\ poll.L < poll.from
    /\ Len(blockLog) >= 3
    /\ verificationQueue # {}
    /\ lastBlock = poll.from

\* ======================================================================
\* SpecSeen: the seen-set knownMessages while the origin keeps broadcasting
\* a new farm_score message second after second
\* (src/internal/p2p/gossip_test.go 240-258, 314-349, 368-437).
\* ======================================================================
\* The last second of the clock of SpecSeen.
SeenClock == 3

\* The retention the claim is checked for: SeenHorizon seconds of age, or
\* SeenBudget ids, whichever lets an id stay longer.
SeenHorizon == 1
SeenBudget == 2

SeenTick ==
    /\ now < SeenClock
    /\ now' = now + 1
    /\ UNCHANGED <<peers, knownMessages, net, tasks, callbackLog, sendLog, apiLog, apiCalls,
                   nodeScores, nodePending, backlog, sent, handled, discoveryVars,
                   quorumVars, validatorVars>>

\* BroadcastFarmScore(requestID, farmScore) at the origin, in any second.
SeenBroadcast ==
    /\ BagCardinality(tasks) < MaxHandlers
    /\ LET msg == FarmScoreMessage(Origin, ClusterRequest, MockScore)
       IN  /\ BroadcastMessage(Origin, msg)
           /\ tasks' = tasks (+) SetToBag({Task(Origin, "BroadcastFarmScore", "own", msg, {})})
    /\ UNCHANGED <<peers, net, callbackLog, sendLog, apiLog, apiCalls, nodeScores, nodePending,
                   handled, now, discoveryVars, quorumVars, validatorVars>>

NextSeen ==
    \/ SeenTick
    \/ SeenBroadcast
    \/ StoreVote
    \/ AddToPending
    \/ ClusterReceive
    \/ ClusterRelay

SpecSeen == InitCluster /\ [][NextSeen]_vars

\* The ids of the messages stamped more than SeenHorizon seconds ago.
OldIDs ==
    {MsgID(Message(type, sender, "", <<>>, 0, t)) :
        type \in {"farm_score"}, sender \in ClusterNodes, t \in 1..(now - SeenHorizon - 1)}

\* C26: the seen-set of a node is bounded by age or by size: it holds no id
\* older than the horizon, or it holds no more ids than the budget.
C26_SeenSetBounded ==
    \A n \in ClusterNodes :
        \/ knownMessages[n] \cap OldIDs = {}
        \/ Cardinality(knownMessages[n]) <= SeenBudget

\* ======================================================================
\* SpecStop: Start and Stop of the validator integration and the tasks Start
\* leaves running (src/internal/ui/console.go 796-814, 868-960,
\* src/internal/p2p/gossip_test.go 137-202, 440-485).
\* ======================================================================
\* The accept loop, discoverPeers and periodicBroadcast are started by
\* GossipEngine.Start; the two engine loops select on the derived context.
EngineLoops == {"discoverPeers", "periodicBroadcast"}

\* processFarmData and checkConsensus are started by the integration's Start
\* with the context the caller passed.
IntegrationLoops == {"processFarmData", "checkConsensus"}

StartedTasks == {"accept"} \cup EngineLoops \cup IntegrationLoops

InitStop == GossipIdle /\ QuorumInit /\ ValidatorIdle

otherThanStop == <<inboundVars, protocolVars, blockVars, auxVars, consensusResults, resultCounts,
                   engineCheck, scoreResults, lastCheck, prototypeVars, calcLog, gossipVars,
                   checker, farmTimer, fetch, usedIDs, handlers, stay, decided, retired,
                   submitMayFail>>

\* ValidatorP2PIntegration.Start(ctx): GossipEngine.Start derives a context,
\* sets running, listens and starts its three goroutines; then the two loops of
\* the integration are started with ctx.
IntegrationStart ==
    /\ ~engineRunning
    /\ ~stopped
    /\ engineRunning' = TRUE
    /\ alive' = StartedTasks
    /\ UNCHANGED <<engineCtxDone, callerCtxDone, stopped, afterStop, pendingRequests,
                   otherThanStop>>

\* ValidatorP2PIntegration.Stop: GossipEngine.Stop sets running = false, cancels
\* the derived context and closes the listener.
IntegrationStop ==
    /\ engineRunning
    /\ engineRunning' = FALSE
    /\ engineCtxDone' = TRUE
    /\ stopped' = TRUE
    /\ UNCHANGED <<alive, callerCtxDone, afterStop, pendingRequests, otherThanStop>>

\* The caller cancels the context it passed to Start; the derived context is
\* cancelled with it.
CallerCancel ==
    /\ ~callerCtxDone
    /\ callerCtxDone' = TRUE
    /\ engineCtxDone' = TRUE
    /\ UNCHANGED <<alive, engineRunning, stopped, afterStop, pendingRequests, otherThanStop>>

\* The accept loop: Accept fails once the listener is closed, and the loop breaks.
AcceptLoop ==
    /\ "accept" \in alive
    /\ ~engineRunning
    /\ alive' = alive \ {"accept"}
    /\ UNCHANGED <<engineRunning, engineCtxDone, callerCtxDone, stopped, afterStop,
                   pendingRequests, otherThanStop>>

\* What a task did when a stop has returned before.
Noted(event) == IF stopped THEN afterStop \cup {event} ELSE afterStop

\* discoverPeers and periodicBroadcast, the select: return when the derived
\* context is done, else broadcast on the tick.
EngineLoop(task) ==
    /\ task \in alive \cap EngineLoops
    /\ IF engineCtxDone
       THEN alive' = alive \ {task} /\ UNCHANGED afterStop
       ELSE afterStop' = Noted("broadcast") /\ UNCHANGED alive
    /\ UNCHANGED <<engineRunning, engineCtxDone, callerCtxDone, stopped, pendingRequests,
                   otherThanStop>>

\* processFarmData, the select: return when the caller's context is done, else
\* on the tick BroadcastFarmData, BroadcastFarmScore (broadcastMessage does not
\* test g.running) and pendingRequests[requestID] = now.
ProcessFarmDataLoop ==
    /\ "processFarmData" \in alive
    /\ IF callerCtxDone
       THEN alive' = alive \ {"processFarmData"} /\ UNCHANGED <<afterStop, pendingRequests>>
       ELSE /\ pendingRequests' = MapSet(pendingRequests, ClusterRequest, 0)
            /\ afterStop' = Noted("broadcast")
            /\ UNCHANGED alive
    /\ UNCHANGED <<engineRunning, engineCtxDone, callerCtxDone, stopped, otherThanStop>>

\* checkConsensus, the select: return when the caller's context is done, else
\* on the tick CheckConsensus for the pending request; when the votes held
\* make a quorum the result is submitted and the request removed.
CheckConsensusLoop ==
    /\ "checkConsensus" \in alive
    /\ IF callerCtxDone
       THEN alive' = alive \ {"checkConsensus"} /\ UNCHANGED <<afterStop, pendingRequests>>
       ELSE /\ ClusterRequest \in DOMAIN pendingRequests
            /\ pendingRequests' = MapDelete(pendingRequests, ClusterRequest)
            /\ afterStop' = Noted("submit")
            /\ UNCHANGED alive
    /\ UNCHANGED <<engineRunning, engineCtxDone, callerCtxDone, stopped, otherThanStop>>

NextStop ==
    \/ IntegrationStart
    \/ IntegrationStop
    \/ CallerCancel
    \/ AcceptLoop
    \/ \E task \in EngineLoops : EngineLoop(task)
    \/ ProcessFarmDataLoop
    \/ CheckConsensusLoop

\* Every task is scheduled: a loop that can take a step takes it.
SpecStop ==
    /\ InitStop
    /\ [][NextStop]_vars
    /\ WF_vars(AcceptLoop)
    /\ \A task \in EngineLoops : WF_vars(EngineLoop(task))
    /\ WF_vars(ProcessFarmDataLoop)
    /\ WF_vars(CheckConsensusLoop)

\* C27: once Stop has returned every task Start started exits, and the node
\* makes no broadcast and no submission after Stop has returned.
C27_StopEndsEveryTask ==
    /\ stopped ~> (alive = {})
    /\ [](stopped => afterStop = {})

\* ======================================================================
\* SpecLocks: the lock operations of the goroutines of one validator node on
\* GossipEngine.mutex (a sync.RWMutex) and on resultsMutex (a sync.Mutex)
\* (src/internal/p2p/gossip_test.go 204-499, src/internal/ui/console.go
\* 868-1012).
\* ======================================================================
\* Number of goroutines running at the same time.
MaxLockTasks == 2

\* broadcastMessage: the peer table is copied under RLock, the seen-set is
\* tested and set under Lock.
BroadcastMessageOps == <<"g.RLock", "g.RUnlock", "g.Lock", "g.Unlock">>

\* AddPeer, cleanupOldPeers, the LastSeen update of handleConnection and the
\* peer_discovery and farm_score cases of processMessage: Lock ... Unlock.
WriteOps == <<"g.Lock", "g.Unlock">>

\* CheckConsensus: RLock, defer RUnlock.
CheckConsensusOps == <<"g.RLock", "g.RUnlock">>

\* v.resultsMutex.Lock() ... Unlock()
ResultsOps == <<"r.Lock", "r.Unlock">>

\* BroadcastFarmScore: broadcastMessage, then the own score under Lock.
BroadcastFarmScoreOps == BroadcastMessageOps \o WriteOps

\* The callbacks registered by NewValidatorP2PIntegration, and a callback that
\* calls AddPeer, CheckConsensus and Broadcast (of a message type without a
\* callback: broadcastMessage, then processMessage looks the callback up).
CallbackOps(type) ==
    CASE type = "farm_data" -> BroadcastFarmScoreOps \o ResultsOps
      [] type = "farm_score" -> ResultsOps
      [] type = "reentrant" -> WriteOps \o CheckConsensusOps \o BroadcastMessageOps
                                  \o <<"g.RLock", "g.RUnlock">>
      [] OTHER -> <<>>

\* processMessage, the switch on the message type.
SwitchOps(type) == IF type \in {"peer_discovery", "farm_score"} THEN WriteOps ELSE <<>>

\* A dispatch that keeps the read lock while the callback runs.
MutDispatchOps(callback) == <<"g.RLock">> \o callback \o <<"g.RUnlock">>

\* processMessage, the dispatch: the callback is looked up under RLock and
\* called after RUnlock.
DispatchOps(callback) == <<"g.RLock", "g.RUnlock">> \o callback

ProcessMessageOps(type) == SwitchOps(type) \o DispatchOps(CallbackOps(type))

\* The message types an inbound frame may carry.
LockMessageTypes == {"peer_discovery", "farm_data", "farm_score", "heartbeat", "reentrant"}

\* The timers of the node and the calls of the application.
LockTimers == {"discoverPeers", "periodicBroadcast", "processFarmData", "checkConsensus",
               "AddPeer"}

LockKinds == LockMessageTypes \cup LockTimers

\* The lock operations of a goroutine, in program order.
Program(kind) ==
    CASE kind \in LockMessageTypes ->
             WriteOps \o ProcessMessageOps(kind) \o BroadcastMessageOps
      [] kind = "discoverPeers" -> BroadcastMessageOps \o WriteOps
      [] kind = "periodicBroadcast" -> BroadcastMessageOps
      [] kind = "processFarmData" ->
             BroadcastMessageOps \o BroadcastFarmScoreOps \o ResultsOps
      [] kind = "checkConsensus" -> ResultsOps \o CheckConsensusOps \o ResultsOps
      [] kind = "AddPeer" -> WriteOps

LockTask(kind, pc, waiting) == [kind |-> kind, pc |-> pc, waiting |-> waiting]

\* The goroutine t has executed its operation: it goes on, or ends.
Advance(t) ==
    lockTasks' = (lockTasks (-) SetToBag({t})) (+)
                 (IF t.pc = Len(Program(t.kind)) THEN EmptyBag
                  ELSE SetToBag({LockTask(t.kind, t.pc + 1, FALSE)}))

\* sync.RWMutex and sync.Mutex: the operation op of goroutine t can complete.
\* A blocked Lock call keeps new readers out.
CanComplete(t, op) ==
    CASE op = "g.RLock" -> engineMutex.writer = 0 /\ engineMutex.waiting = 0
      [] op = "g.Lock" -> (~t.waiting) \/ (engineMutex.writer = 0 /\ engineMutex.readers = 0)
      [] op = "r.Lock" -> resultsMutex = 0
      [] OTHER -> TRUE

InitLocks == GossipIdle /\ QuorumInit /\ ValidatorIdle

otherThanLocks == <<inboundVars, protocolVars, blockVars, stopVars, proofVars, startVars, foundVars,
                    consoleVars,
                    consensusResults,
                    resultCounts, engineCheck, scoreResults, lastCheck, prototypeVars, calcLog,
                    gossipVars, validatorVars>>

\* A connection is accepted (go handleConnection), a ticker fires, or the
\* application calls the engine.
LockSpawn ==
    \E kind \in LockKinds :
        /\ BagCardinality(lockTasks) < MaxLockTasks
        /\ lockTasks' = lockTasks (+) SetToBag({LockTask(kind, 1, FALSE)})
        /\ UNCHANGED <<engineMutex, resultsMutex, otherThanLocks>>

\* A goroutine executes its next lock operation.  Lock first announces the
\* writer and then acquires the mutex once no reader and no writer holds it.
LockStep ==
    \E t \in BagToSet(lockTasks) :
        LET op == Program(t.kind)[t.pc]
        IN  /\ CanComplete(t, op)
            /\ CASE op = "g.RLock" ->
                       /\ engineMutex' = [engineMutex EXCEPT !.readers = @ + 1]
                       /\ Advance(t)
                       /\ UNCHANGED resultsMutex
                 [] op = "g.RUnlock" ->
                       /\ engineMutex' = [engineMutex EXCEPT !.readers = @ - 1]
                       /\ Advance(t)
                       /\ UNCHANGED resultsMutex
                 [] op = "g.Lock" /\ ~t.waiting ->
                       /\ engineMutex' = [engineMutex EXCEPT !.waiting = @ + 1]
                       /\ lockTasks' = (lockTasks (-) SetToBag({t})) (+)
                                       SetToBag({LockTask(t.kind, t.pc, TRUE)})
                       /\ UNCHANGED resultsMutex
                 [] op = "g.Lock" /\ t.waiting ->
                       /\ engineMutex' = [engineMutex EXCEPT !.writer = 1, !.waiting = @ - 1]
                       /\ Advance(t)
                       /\ UNCHANGED resultsMutex
                 [] op = "g.Unlock" ->
                       /\ engineMutex' = [engineMutex EXCEPT !.writer = 0]
                       /\ Advance(t)
                       /\ UNCHANGED resultsMutex
                 [] op = "r.Lock" ->
                       /\ resultsMutex' = 1
                       /\ Advance(t)
                       /\ UNCHANGED engineMutex
                 [] op = "r.Unlock" ->
                       /\ resultsMutex' = 0
                       /\ Advance(t)
                       /\ UNCHANGED engineMutex
            /\ UNCHANGED otherThanLocks

NextLocks == LockSpawn \/ LockStep

SpecLocks == InitLocks /\ [][NextLocks]_vars

\* The goroutine t is running a message callback: its next operation lies
\* after the dispatch and before the relay of handleConnection.
InCallback(t) ==
    /\ t.kind \in LockMessageTypes
    /\ t.pc > Len(WriteOps \o SwitchOps(t.kind)) + 2
    /\ t.pc <= Len(Program(t.kind)) - Len(BroadcastMessageOps)

\* How many times the goroutine t has executed the operation op.
Executed(t, op) == Cardinality({i \in 1..(t.pc - 1) : Program(t.kind)[i] = op})

\* The locks of the engine mutex the goroutine t holds.
HeldByTask(t) ==
    (Executed(t, "g.RLock") - Executed(t, "g.RUnlock"))
        + (Executed(t, "g.Lock") - Executed(t, "g.Unlock"))

\* C31: a goroutine that is running a callback holds no lock of the engine
\* mutex from before the callback, and the goroutines never deadlock: while a
\* goroutine is unfinished, some goroutine can execute its next operation.
C31_CallbacksNeverDeadlock ==
    /\ lockTasks # EmptyBag =>
          \E t \in BagToSet(lockTasks) : CanComplete(t, Program(t.kind)[t.pc])
    /\ \A t \in BagToSet(lockTasks) :
          t.pc = Len(WriteOps \o SwitchOps(t.kind)) + 3 => HeldByTask(t) = 0

\* C31 witness: a farm_data callback holds the write lock inside
\* BroadcastFarmScore while another goroutine is blocked in Lock.
C31_Witness ==
    \E t \in BagToSet(lockTasks) :
        /\ t.kind = "farm_data"
        /\ InCallback(t)
        /\ Program(t.kind)[t.pc] = "g.Unlock"
        /\ engineMutex.waiting > 0

\* ======================================================================
\* SpecProof: the proof Generator (src/unnamed/part_006 11-67).  sha256 is
\* taken to be free of collisions on the results of the model: the digest of
\* x is the pair <<"sha256", x>>.
\* ======================================================================
NumProofRequests == 3

ProofRequests == {ToString(i) : i \in 1..NumProofRequests}

\* The results passed to the generator; "" is the empty byte slice.
ProofResults == {"", "r1", "r2"}

Sha256(x) == <<"sha256", x>>

\* []byte(fmt.Sprintf("proof:%s", hex.EncodeToString(hash2[:])))
ProofOf(result) == <<"proof:", Sha256(Sha256(result))>>

\* The proof a caller hands to VerifyProof: one the generator made, or the
\* empty slice <<>>.
ProofInputs == {ProofOf(r) : r \in ProofResults \ {""}} \cup {<<>>}

\* GenerateProof(requestID, result) on the map g.proofs: <<proof, err, proofs'>>.
GenerateProof(stored, requestID, result) ==
    IF requestID \in DOMAIN stored THEN <<stored[requestID], FALSE, stored>>
    ELSE IF result = "" THEN <<<<>>, TRUE, stored>>
    ELSE <<ProofOf(result), FALSE, MapSet(stored, requestID, ProofOf(result))>>

\* VerifyProof(result, proof): <<ok, err>>.
VerifyProof(result, proof) ==
    IF result = "" \/ proof = <<>> THEN <<FALSE, TRUE>>
    ELSE <<proof = ProofOf(result), FALSE>>

InitProof == GossipIdle /\ QuorumInit /\ ValidatorIdle

otherThanProof == <<inboundVars, protocolVars, blockVars, stopVars, lockVars, startVars, foundVars,
                    consoleVars,
                    consensusResults, resultCounts, engineCheck, scoreResults, lastCheck,
                    prototypeVars, calcLog, gossipVars, validatorVars>>

CallGenerateProof ==
    \E requestID \in ProofRequests, result \in ProofResults :
        LET ret == GenerateProof(proofs, requestID, result)
        IN  /\ proofs' = ret[3]
            /\ lastGenerate' = [called |-> TRUE, requestID |-> requestID, result |-> result,
                                proof |-> ret[1], err |-> ret[2]]
            /\ UNCHANGED <<lastVerify, otherThanProof>>

CallVerifyProof ==
    \E result \in ProofResults, proof \in ProofInputs :
        /\ lastVerify' = [called |-> TRUE, result |-> result, proof |-> proof,
                          ret |-> VerifyProof(result, proof)]
        /\ UNCHANGED <<proofs, lastGenerate, otherThanProof>>

NextProof == CallGenerateProof \/ CallVerifyProof

SpecProof == InitProof /\ [][NextProof]_vars

\* C36: the proof GenerateProof returns for a non-empty result is accepted by
\* VerifyProof for that result, whatever calls were made before.
C36_GeneratedProofVerifies ==
    (lastGenerate.called /\ lastGenerate.result # "") =>
        /\ ~lastGenerate.err
        /\ VerifyProof(lastGenerate.result, lastGenerate.proof) = <<TRUE, FALSE>>

\* ======================================================================
\* SpecStart: Start and Stop of the P2P validator and the goroutines they
\* leave behind (src/unnamed/part_007 183-221, 536-587).  Every Start call
\* that passes the running test derives a new cancellable context; contexts
\* are numbered 1, 2, ... in the order they are made.
\* ======================================================================
MaxStarts == 3

\* go v.processBlocks(ctx, ...); go v.processVerifications(ctx)
BaseTasks(ctx) == {<<"processBlocks", ctx>>, <<"processVerifications", ctx>>}

\* go v.broadcastStatus(ctx); go v.syncPeersFromHost(ctx)
P2PTasks(ctx) == {<<"broadcastStatus", ctx>>, <<"syncPeersFromHost", ctx>>}

InitStart == GossipIdle /\ QuorumInit /\ ValidatorIdle

otherThanStart == <<inboundVars, protocolVars, blockVars, stopVars, lockVars, proofVars, foundVars,
                    consoleVars,
                    consensusResults, resultCounts, engineCheck, scoreResults, lastCheck,
                    prototypeVars, calcLog, gossipVars, validatorVars>>

Returned(op, err) == [op |-> op, err |-> err, prev |-> lastCall.err]

\* P2PValidator.Start; hostCreated is whether p2p.NewHost succeeds.
P2PValidatorStart ==
    \E hostCreated \in BOOLEAN :
        IF valRunning
        THEN \* Validator.Start: "validator is already running"
             /\ lastCall' = Returned("Start", "already running")
             /\ UNCHANGED <<valRunning, valCancel, ctxsDone, valTasks, p2pHost, otherThanStart>>
        ELSE LET ctx == valCancel + 1 IN
             /\ ctx <= MaxStarts
             \* Validator.Start has returned nil: both loops run, running is set
             /\ valRunning' = TRUE
             /\ valCancel' = ctx
             /\ IF hostCreated
                THEN /\ p2pHost' = "open"
                     /\ valTasks' = valTasks \cup BaseTasks(ctx) \cup P2PTasks(ctx)
                     /\ lastCall' = Returned("Start", "nil")
                ELSE /\ valTasks' = valTasks \cup BaseTasks(ctx)
                     /\ lastCall' = Returned("Start", "failed to create p2p host")
                     /\ UNCHANGED p2pHost
             /\ UNCHANGED <<ctxsDone, otherThanStart>>

\* P2PValidator.Stop: Validator.Stop, then Close of the host if there is one.
P2PValidatorStop ==
    /\ IF valRunning
       THEN /\ ctxsDone' = ctxsDone \cup {valCancel}
            /\ valRunning' = FALSE
       ELSE UNCHANGED <<ctxsDone, valRunning>>
    /\ p2pHost' = IF p2pHost = "nil" THEN "nil" ELSE "closed"
    /\ lastCall' = Returned("Stop", "nil")
    /\ UNCHANGED <<valCancel, valTasks, otherThanStart>>

\* A loop takes the <-ctx.Done() case of its select and returns.
TaskReturns ==
    \E t \in valTasks :
        /\ t[2] \in ctxsDone
        /\ valTasks' = valTasks \ {t}
        /\ UNCHANGED <<valRunning, valCancel, ctxsDone, p2pHost, lastCall, otherThanStart>>

NextStart == P2PValidatorStart \/ P2PValidatorStop \/ TaskReturns

SpecStart == InitStart /\ [][NextStart]_vars

\* The goroutines that no cancelled context will end.
Running(ts) == {t \in ts : t[2] \notin ctxsDone}

\* C37: when Start has returned the error of a host that cannot be created,
\* the validator is not running and none of its loops is left running; and a
\* Start that follows such a failure is not rejected as already running.
C37_FailedStartLeavesNothingRunning ==
    /\ (lastCall.op = "Start" /\ lastCall.err = "failed to create p2p host") =>
          ~valRunning /\ Running(valTasks) = {}
    /\ (lastCall.op = "Start" /\ lastCall.err = "already running") =>
          lastCall.prev # "failed to create p2p host"

\* ======================================================================
\* SpecHost: HandlePeerFound and the Connected / Disconnected notifications
\* of the libp2p host (src/internal/p2p/host.go 80-99, 136-157).  Whether
\* the swarm runs the notifees of a new connection before Connect returns is
\* the library's choice: both are modelled.
\* ======================================================================
NumFoundPeers == 2

SelfID == "self"

FoundPeers == {"p" \o ToString(i) : i \in 1..NumFoundPeers}

InitHost == GossipIdle /\ QuorumInit /\ ValidatorIdle

otherThanFound == <<inboundVars, protocolVars, blockVars, stopVars, lockVars, proofVars, consoleVars,
                    startVars, consensusResults, resultCounts, engineCheck, scoreResults,
                    lastCheck, prototypeVars, calcLog, gossipVars, validatorVars>>

At(p) == MapGet(finders, p, "idle")

\* HandlePeerFound up to the call of Connect: the test for ourselves, Lock,
\* the store in h.peers.
HandlePeerFound ==
    \E pi \in FoundPeers \cup {SelfID} :
        IF pi = SelfID
        THEN UNCHANGED vars
        ELSE /\ At(pi) = "idle"
             /\ hostMutex = "free"
             /\ hostMutex' = pi
             /\ hostPeers' = hostPeers \cup {pi}
             /\ finders' = MapSet(finders, pi, "Connect")
             /\ UNCHANGED <<notifs, conns, otherThanFound>>

\* h.host.Connect dials the peer: the swarm adds the connection and raises
\* Connected.  Connect on a peer already connected returns at once.
ConnectDials ==
    \E pi \in FoundPeers, inline \in BOOLEAN :
        /\ At(pi) = "Connect"
        /\ IF pi \in conns
           THEN /\ finders' = MapSet(finders, pi, "return")
                /\ UNCHANGED <<notifs, conns>>
           ELSE /\ conns' = conns \cup {pi}
                /\ notifs' = notifs \cup {<<"Connected", pi, inline>>}
                /\ finders' = MapSet(finders, pi, "dialed")
        /\ UNCHANGED <<hostMutex, hostPeers, otherThanFound>>

\* Connect returns nil once the dial is over, which includes the notifees
\* the swarm runs inline.
ConnectReturns ==
    \E pi \in FoundPeers :
        /\ At(pi) = "dialed"
        /\ <<"Connected", pi, TRUE>> \notin notifs
        /\ finders' = MapSet(finders, pi, "return")
        /\ UNCHANGED <<hostMutex, hostPeers, notifs, conns, otherThanFound>>

\* Connect returns an error: the dial fails, or the 10 s of ctx run out.
ConnectFails ==
    \E pi \in FoundPeers :
        /\ At(pi) \in {"Connect", "dialed"}
        /\ finders' = MapSet(finders, pi, "return")
        /\ UNCHANGED <<hostMutex, hostPeers, notifs, conns, otherThanFound>>

\* HandlePeerFound returns: the deferred cancel and Unlock.
HandlePeerFoundReturns ==
    \E pi \in FoundPeers :
        /\ At(pi) = "return"
        /\ hostMutex' = "free"
        /\ finders' = MapDelete(finders, pi)
        /\ UNCHANGED <<hostPeers, notifs, conns, otherThanFound>>

\* A remote peer connects to this host.
InboundConnect ==
    \E pi \in FoundPeers :
        /\ pi \notin conns
        /\ At(pi) # "Connect"
        /\ conns' = conns \cup {pi}
        /\ notifs' = notifs \cup {<<"Connected", pi, FALSE>>}
        /\ UNCHANGED <<hostMutex, hostPeers, finders, otherThanFound>>

\* A connection closes.
Disconnect ==
    \E pi \in conns :
        /\ \A n \in notifs : n[2] # pi
        /\ conns' = conns \ {pi}
        /\ notifs' = notifs \cup {<<"Disconnected", pi, FALSE>>}
        /\ UNCHANGED <<hostMutex, hostPeers, finders, otherThanFound>>

\* ConnectedF / DisconnectedF of the notify bundle: Lock, the update of
\* host.peers, Unlock.
Notify ==
    \E n \in notifs :
        /\ hostMutex = "free"
        /\ hostPeers' = IF n[1] = "Connected" THEN hostPeers \cup {n[2]}
                        ELSE hostPeers \ {n[2]}
        /\ notifs' = notifs \ {n}
        /\ UNCHANGED <<hostMutex, finders, conns, otherThanFound>>

NextHost ==
    \/ HandlePeerFound \/ ConnectDials \/ ConnectReturns \/ ConnectFails
    \/ HandlePeerFoundReturns \/ InboundConnect \/ Disconnect \/ Notify

SpecHost == InitHost /\ [][NextHost]_vars

\* C38: a notification that has been raised can complete: HandlePeerFound
\* does not hold the host mutex while one is waiting, and in particular not
\* while the Connected notification of its own dial is.
C38_NotificationsNeverBlocked ==
    \A n \in notifs : hostMutex = "free"

\* ======================================================================
\* SpecConsole: Start and Stop of the console UI and its update routine
\* (src/internal/ui/console.go 48-87, 153-169).  stopChan is made without a
\* buffer: a send on it succeeds only while a routine waits in its select.
\* ======================================================================
MaxUIStarts == 4

InitConsole == GossipIdle /\ QuorumInit /\ ValidatorIdle

otherThanConsole == <<inboundVars, protocolVars, blockVars, stopVars, lockVars, proofVars,
                      startVars, foundVars, consensusResults, resultCounts, engineCheck,
                      scoreResults, lastCheck, prototypeVars, calcLog, gossipVars,
                      validatorVars>>

\* ConsoleUI.Start: a routine is started, at its initial render, unless the UI
\* is running.
ConsoleStart ==
    /\ uiStarts < MaxUIStarts
    /\ IF uiRunning
       THEN UNCHANGED <<uiRunning, routines, uiStarts>>
       ELSE /\ uiRunning' = TRUE
            /\ uiStarts' = uiStarts + 1
            /\ routines' = MapSet(routines, uiStarts + 1, "render")
    /\ UNCHANGED otherThanConsole

\* ConsoleUI.Stop: the send on stopChan is taken by a routine that waits in
\* its select; when none does, the default case runs and nothing is sent.
ConsoleStop ==
    /\ uiRunning
    /\ uiRunning' = FALSE
    /\ LET waiting == {r \in DOMAIN routines : routines[r] = "select"}
       IN IF waiting = {}
          THEN UNCHANGED routines
          ELSE \E r \in waiting : routines' = MapSet(routines, r, "return")
    /\ UNCHANGED <<uiStarts, otherThanConsole>>

\* renderMetrics returns and the routine enters its select.
RenderReturns ==
    \E r \in DOMAIN routines :
        /\ routines[r] = "render"
        /\ routines' = MapSet(routines, r, "select")
        /\ UNCHANGED <<uiRunning, uiStarts, otherThanConsole>>

\* case <-ticker.C: the routine renders again.
TickerFires ==
    \E r \in DOMAIN routines :
        /\ routines[r] = "select"
        /\ routines' = MapSet(routines, r, "render")
        /\ UNCHANGED <<uiRunning, uiStarts, otherThanConsole>>

\* case <-c.stopChan: return.
RoutineReturns ==
    \E r \in DOMAIN routines :
        /\ routines[r] = "return"
        /\ routines' = MapDelete(routines, r)
        /\ UNCHANGED <<uiRunning, uiStarts, otherThanConsole>>

NextConsole == ConsoleStart \/ ConsoleStop \/ RenderReturns \/ TickerFires \/ RoutineReturns

SpecConsole == InitConsole /\ [][NextConsole]_vars

\* The routines that have not received the stop signal.
Updating == {r \in DOMAIN routines : routines[r] # "return"}

\* C40: once Stop has been called every routine has taken the stop signal, so
\* it exits whatever it was doing, and at no time does more than one routine
\* update the display.
C40_StopEndsTheUpdateRoutine ==
    /\ ~uiRunning => Updating = {}
    /\ Cardinality(Updating) <= 1

====
